---- MODULE Spec2Model ----
(***************************************************************************)
(* Model of the clip recorder of utils/videoUtils.ts (recordCroppedVideo). *)
(*                                                                         *)
(* One invocation of recordCroppedVideo on one HTMLVideoElement is         *)
(* modelled together with the browser objects it drives: the source video, *)
(* the MediaRecorder, the timers and the frame callbacks.  Every handler   *)
(* of the source is an operator from the "world" record                    *)
(*     [v |-> source video, c |-> closure of the invocation, h |-> history]*)
(* to the world it leaves behind, so that a handler that calls another     *)
(* (forceStop -> cleanup -> recorder.stop) is the composition of the       *)
(* operators.  Times are held in integer milliseconds.                     *)
(***************************************************************************)
EXTENDS Integers, Sequences, FiniteSets, TLC

VARIABLES sourceVideo, call, hist, sampler, bounds, selector, cropper, app

vars == <<sourceVideo, call, hist, sampler, bounds, selector, cropper, app>>

(* the state of the other components: the frame sampler of utils/media.ts, *)
(* the scale computation and the components of the user interface          *)
(* (TimeSelector, Cropper, App); the recorder leaves them alone            *)
recorderVars == <<sourceVideo, call, hist>>
uiVars == <<selector, cropper, app>>
otherVars == <<sampler, bounds, selector, cropper, app>>

(***************************************************************************)
(* Bounds of the model and constants of the program.                       *)
(***************************************************************************)
MaxEncoded == 1            \* frames the encoder buffer counts up to

WatchdogGraceMs == 5000    \* videoUtils.ts:95
SeekTimeoutMs == 2000      \* videoUtils.ts:176
SeekEpsilonMs == 100       \* videoUtils.ts:160 and :199 (0.1 s)

CropInputs == { [width |-> 0, height |-> 500], [width |-> 500, height |-> 0],
                [width |-> -10, height |-> 500], [width |-> 500, height |-> 500] }
StartTimes == {0, 1000, 5000}
EndTimes == {1000, 2000}
InitPositions == {0, 1050}
Positions == {0, 1000, 1050, 1500, 5000}

Min(a, b) == IF a < b THEN a ELSE b
Abs(a) == IF a < 0 THEN 0 - a ELSE a

RECURSIVE SumSeq(_)
SumSeq(q) == IF q = <<>> THEN 0 ELSE Head(q) + SumSeq(Tail(q))

(***************************************************************************)
(* The promise returned by recordCroppedVideo: resolve and reject act only *)
(* on a pending promise.                                                   *)
(***************************************************************************)
PendingPromise == [state |-> "pending", reason |-> "none", size |-> 0]

Settle_Overwrite(p, new) == new

Settle(p, new) == IF p.state = "pending" THEN new ELSE p

Resolve(s, size) ==
  [s EXCEPT !.c.promise =
      Settle(@, [state |-> "resolved", reason |-> "none", size |-> size])]

Reject(s, reason) ==
  [s EXCEPT !.c.promise =
      Settle(@, [state |-> "rejected", reason |-> reason, size |-> 0])]

Settled(c) == c.promise.state # "pending"

(***************************************************************************)
(* A write of the pipeline to the source video (muted, currentTime,        *)
(* play(), pause()).  The history records that the source was touched, and *)
(* whether it was touched after the promise had settled.                   *)
(***************************************************************************)
TouchSource(s) ==
  [s EXCEPT !.h.srcWrites = TRUE,
            !.h.lateWrites = @ \/ Settled(s.c)]

SetMuted(s, m) == [TouchSource(s) EXCEPT !.v.muted = m]

SetCurrentTime(s, t, readback) ==
  [TouchSource(s) EXCEPT !.v.currentTime = readback,
                         !.v.seeking = TRUE,
                         !.v.seekTarget = t]

Play(s) == [TouchSource(s) EXCEPT !.v.paused = FALSE]

Pause(s) == [TouchSource(s) EXCEPT !.v.paused = TRUE]

(***************************************************************************)
(* Validation at the head of recordCroppedVideo.                           *)
(***************************************************************************)
InvalidCrop_StrictWidth(crop) == crop.width < 0 \/ crop.height <= 0

InvalidCrop(crop) == crop.width <= 0 \/ crop.height <= 0

(* delay of the watchdog: expectedDurationMs + 5000 *)
SafetyDelay(startTime, endTime) == (endTime - startTime) + WatchdogGraceMs

(***************************************************************************)
(* cleanup, forceStop and the MediaRecorder handlers.                      *)
(***************************************************************************)
Cleanup(s) ==
  [s EXCEPT !.c.safetyTimeout = IF @ = "armed" THEN "cleared" ELSE @,
            !.c.isFinished = TRUE,
            !.c.restoreTimers = @ + 1,
            !.h.cleanups = @ + 1]

(* recorder.stop(): the recorder goes inactive at once; dataavailable and  *)
(* stop are delivered later.                                               *)
RecorderStopCall(s) ==
  [s EXCEPT !.c.recorder = "inactive", !.c.stopTask = "data"]

ForceStop_NoReject(s, reason) ==
  IF s.c.isFinished THEN s
  ELSE LET s1 == Cleanup(s) IN
       IF s1.c.recorder = "recording" THEN RecorderStopCall(s1) ELSE s1

ForceStop(s, reason) ==
  IF s.c.isFinished THEN s
  ELSE LET s1 == Cleanup(s) IN
       IF s1.c.recorder = "recording"
         THEN RecorderStopCall(s1)
         ELSE Reject(s1, reason)

OnDataAvailable(s, size) ==
  IF size > 0 THEN [s EXCEPT !.c.chunks = Append(@, size)] ELSE s

OnStop_ResolveAlways(s) ==
  LET s1 == IF ~s.c.isFinished THEN Cleanup(s) ELSE s IN
  Resolve(s1, SumSeq(s1.c.chunks))

OnStop(s) ==
  LET s1 == IF ~s.c.isFinished THEN Cleanup(s) ELSE s
      size == SumSeq(s1.c.chunks)
  IN IF size = 0 THEN Reject(s1, "EmptyOutput") ELSE Resolve(s1, size)

OnError(s) == Reject(Cleanup(s), "RecorderError")

(* the catch block of processFrames *)
Catch(s, e) == [Reject(Cleanup(s), e) EXCEPT !.c.pc = "caught"]

(***************************************************************************)
(* The frame loop.                                                         *)
(***************************************************************************)
(* draw(): the frame is rendered on the canvas; the encoder captures it    *)
(* while it is recording.  The history records that a frame was rendered. *)
Draw(s) ==
  LET s1 == [s EXCEPT !.h.drawn = TRUE] IN
  IF s1.c.recorder = "recording"
    THEN [s1 EXCEPT !.c.encoded = Min(@ + 1, MaxEncoded)]
    ELSE s1

(* if (recorder.state === 'recording') recorder.stop(); the history records *)
(* that the tick took a stopping branch *)
StopIfRecording(s) ==
  LET s1 == [s EXCEPT !.h.stopBranch = TRUE] IN
  IF s1.c.recorder = "recording" THEN RecorderStopCall(s1) ELSE s1

(* the start of a tick: the callback is consumed, nothing rendered and     *)
(* nothing stopped yet; the history records which callback ran            *)
BeginTick(s) ==
  [s EXCEPT !.c.frameCb = "none", !.h.tick = s.c.frameCb,
            !.h.drawn = FALSE, !.h.stopBranch = FALSE]

(* history: the loop gave up on a stall or an early end of the media *)
NotePlaybackError(s) ==
  [s EXCEPT !.h.playbackError = @ \/ s.v.currentTime < s.c.endTime]

OnFrame_AnyPause(s0) ==
  LET s == BeginTick(s0) IN
  IF s.c.isFinished THEN s
  ELSE IF s.v.paused \/ s.v.ended
    THEN StopIfRecording(NotePlaybackError(s))
  ELSE LET s1 == Draw(s) IN
       IF s1.v.currentTime < s1.c.endTime
         THEN [s1 EXCEPT !.c.frameCb = "rvfc"]
         ELSE StopIfRecording(Pause(s1))

OnFrame(s0) ==
  LET s == BeginTick(s0) IN
  IF s.c.isFinished THEN s
  ELSE IF s.v.paused /\ s.v.currentTime > s.c.startTime + SeekEpsilonMs
    THEN StopIfRecording(NotePlaybackError(s))
  ELSE IF s.v.ended
    THEN StopIfRecording(NotePlaybackError(s))
  ELSE LET s1 == Draw(s) IN
       IF s1.v.currentTime < s1.c.endTime
         THEN [s1 EXCEPT !.c.frameCb = "rvfc"]
         ELSE StopIfRecording(Pause(s1))

FallbackLoop(s0) ==
  LET s == BeginTick(s0) IN
  IF s.c.isFinished THEN s
  ELSE IF s.v.paused \/ s.v.ended
    THEN StopIfRecording(NotePlaybackError(s))
  ELSE LET s1 == Draw(s) IN
       IF s1.v.currentTime < s1.c.endTime
         THEN [s1 EXCEPT !.c.frameCb = "raf"]
         ELSE StopIfRecording(Pause(s1))

(***************************************************************************)
(* processFrames.                                                          *)
(***************************************************************************)
(* the executor of the seek promise, run synchronously *)
ProcessFramesSeek(s, readback) ==
  LET s1 == SetCurrentTime(s, s.c.startTime, readback) IN
  IF Abs(s1.v.currentTime - s1.c.startTime) < SeekEpsilonMs
    THEN [s1 EXCEPT !.c.isResolved = TRUE, !.c.pc = "afterSeek"]
    ELSE [s1 EXCEPT !.c.seekListener = TRUE, !.c.seekTimer = "armed",
                    !.c.pc = "seekWait"]

OnSeeked(s) ==
  LET s1 == [s EXCEPT !.c.seekListener = FALSE] IN    \* { once: true }
  IF s1.c.isResolved THEN s1
  ELSE [s1 EXCEPT !.c.isResolved = TRUE, !.c.pc = "afterSeek"]

OnSeekTimeout_NoGuard(s) ==
  [s EXCEPT !.c.seekTimer = "fired", !.c.isResolved = TRUE,
            !.c.seekListener = FALSE, !.c.pc = "afterSeek"]

OnSeekTimeout(s) ==
  LET s1 == [s EXCEPT !.c.seekTimer = "fired"] IN
  IF ~s1.c.isResolved
    THEN [s1 EXCEPT !.c.isResolved = TRUE, !.c.seekListener = FALSE,
                    !.c.pc = "afterSeek"]
    ELSE s1

(* after the seek: recorder.start() and the call of sourceVideo.play() *)
AfterSeek(s, startThrows) ==
  IF s.c.recorder = "inactive" /\ startThrows
    THEN Catch(s, "LoopFailed")
    ELSE LET s1 == IF s.c.recorder = "inactive"
                     THEN [s EXCEPT !.c.recorder = "recording"] ELSE s
         IN [Play(s1) EXCEPT !.c.pc = "playWait"]

(* sourceVideo.play() fulfilled: initial draw, first frame callback *)
AfterPlay(s, hasRVFC) ==
  LET s1 == Draw(s) IN
  [s1 EXCEPT !.c.frameCb = IF hasRVFC THEN "rvfc" ELSE "raf",
             !.c.pc = "looping"]

(***************************************************************************)
(* recordCroppedVideo: the synchronous part of the call.                   *)
(***************************************************************************)
RecordCroppedVideo_MuteFirst(s0, crop, startTime, endTime, ctxOK, rec1OK, rec2OK, readback) ==
  LET s == [s0 EXCEPT !.c.crop = crop, !.c.startTime = startTime,
                      !.c.endTime = endTime, !.c.pc = "returned",
                      !.h.v0 = s0.v]
  IN
  IF InvalidCrop(crop) THEN Reject(s, "InvalidCrop")
  ELSE IF ~ctxOK THEN Reject([s EXCEPT !.c.canvas = "noctx"], "NoContext")
  ELSE IF ~rec1OK /\ ~rec2OK
    THEN Reject(SetMuted([s EXCEPT !.c.canvas = "ready", !.c.recAttempts = 2],
                         TRUE),
                "RecorderInit")
  ELSE LET s1 == [s EXCEPT !.c.canvas = "ready",
                           !.c.recAttempts = IF rec1OK THEN 1 ELSE 2,
                           !.c.recorder = "inactive",
                           !.c.safetyTimeout = "armed",
                           !.c.safetyMs = SafetyDelay(startTime, endTime),
                           !.c.isFinished = FALSE,
                           !.c.originalMuted = s.v.muted]
       IN ProcessFramesSeek(SetMuted(s1, TRUE), readback)

RecordCroppedVideo(s0, crop, startTime, endTime, ctxOK, rec1OK, rec2OK, readback) ==
  LET s == [s0 EXCEPT !.c.crop = crop, !.c.startTime = startTime,
                      !.c.endTime = endTime, !.c.pc = "returned",
                      !.h.v0 = s0.v]
  IN
  IF InvalidCrop(crop) THEN Reject(s, "InvalidCrop")
  ELSE IF ~ctxOK THEN Reject([s EXCEPT !.c.canvas = "noctx"], "NoContext")
  ELSE IF ~rec1OK /\ ~rec2OK
    THEN Reject([s EXCEPT !.c.canvas = "ready", !.c.recAttempts = 2],
                "RecorderInit")
  ELSE LET s1 == [s EXCEPT !.c.canvas = "ready",
                           !.c.recAttempts = IF rec1OK THEN 1 ELSE 2,
                           !.c.recorder = "inactive",
                           !.c.safetyTimeout = "armed",
                           !.c.safetyMs = SafetyDelay(startTime, endTime),
                           !.c.isFinished = FALSE,
                           !.c.originalMuted = s.v.muted]
       IN ProcessFramesSeek(SetMuted(s1, TRUE), readback)

(***************************************************************************)
(* State.                                                                  *)
(***************************************************************************)
World == [v |-> sourceVideo, c |-> call, h |-> hist]

Becomes(s) == /\ sourceVideo' = s.v
              /\ call' = s.c
              /\ hist' = s.h
              /\ UNCHANGED otherVars

SamplerIds == {1, 2}

SamplerOff == [pc |-> "off"]

BoundsOff == [pc |-> "off"]
SelectorOff == [pc |-> "off"]
CropperOff == [pc |-> "off"]
AppOff == [pc |-> "off"]
UiOff == selector = SelectorOff /\ cropper = CropperOff /\ app = AppOff

InitCall ==
  [pc |-> "idle", crop |-> [width |-> 0, height |-> 0],
   startTime |-> 0, endTime |-> 0,
   canvas |-> "none", recorder |-> "none", recAttempts |-> 0,
   encoded |-> 0, chunks |-> <<>>,
   stopTask |-> "none", safetyTimeout |-> "none", safetyMs |-> 0,
   isFinished |-> FALSE, originalMuted |-> FALSE,
   isResolved |-> FALSE, seekListener |-> FALSE, seekTimer |-> "none",
   frameCb |-> "none", restoreTimers |-> 0, promise |-> PendingPromise,
   prior |-> <<>>, calls |-> 0]

Init ==
  /\ \E m \in BOOLEAN, p \in BOOLEAN, t \in InitPositions :
       sourceVideo = [muted |-> m, currentTime |-> t, paused |-> p,
                      ended |-> FALSE, seeking |-> FALSE, seekTarget |-> t]
  /\ call = InitCall
  /\ hist = [cleanups |-> 0, restores |-> 0, srcWrites |-> FALSE,
             lateWrites |-> FALSE, wdFired |-> "no", playbackError |-> FALSE,
             drawn |-> FALSE, stopBranch |-> FALSE, tick |-> "none",
             v0 |-> sourceVideo]
  /\ sampler = [i \in SamplerIds |-> SamplerOff]
  /\ bounds = BoundsOff
  /\ UiOff

(* a continuation of processFrames is queued as a microtask: it runs before *)
(* any other task of the event loop *)
NoMicrotask == call.pc # "afterSeek"

(***************************************************************************)
(* Actions: the call, the continuations of processFrames, the timers, the  *)
(* events of the recorder and of the source.                               *)
(***************************************************************************)
Record ==
  /\ call.pc = "idle"
  /\ \E crop \in CropInputs, st \in StartTimes, en \in EndTimes,
        ctxOK \in BOOLEAN, rec1OK \in BOOLEAN, rec2OK \in BOOLEAN :
      \E readback \in {st, sourceVideo.currentTime} :
       Becomes(RecordCroppedVideo(World, crop, st, en, ctxOK, rec1OK, rec2OK, readback))

ProcessFramesAfterSeek ==
  /\ call.pc = "afterSeek"
  /\ \E startThrows \in BOOLEAN : Becomes(AfterSeek(World, startThrows))

PlayFulfilled ==
  /\ call.pc = "playWait"
  /\ \E hasRVFC \in BOOLEAN : Becomes(AfterPlay(World, hasRVFC))

(* play() rejected (not allowed, or aborted): the source is left paused *)
PlayRejected ==
  /\ call.pc = "playWait"
  /\ Becomes(Catch([World EXCEPT !.v.paused = TRUE], "LoopFailed"))

SeekedEvent ==
  /\ NoMicrotask
  /\ sourceVideo.seeking
  /\ LET s == [World EXCEPT !.v.seeking = FALSE,
                            !.v.currentTime = sourceVideo.seekTarget]
     IN Becomes(IF call.seekListener THEN OnSeeked(s) ELSE s)

(* timers armed in the same task fire in the order of their deadlines *)
SeekTimerFire ==
  /\ NoMicrotask
  /\ call.seekTimer = "armed"
  /\ call.safetyTimeout = "armed" => call.safetyMs > SeekTimeoutMs
  /\ Becomes(OnSeekTimeout(World))

WatchdogFire ==
  /\ NoMicrotask
  /\ call.safetyTimeout = "armed"
  /\ call.seekTimer = "armed" => call.safetyMs <= SeekTimeoutMs
  /\ LET produced == call.encoded + SumSeq(call.chunks)
         s == [World EXCEPT !.c.safetyTimeout = "fired",
                            !.h.wdFired = IF produced > 0 THEN "nonempty" ELSE "empty"]
     IN Becomes(ForceStop(s, "Timeout"))

(* the delayed restore of cleanup: sourceVideo.muted = originalMuted *)
MuteRestoreFire ==
  /\ NoMicrotask
  /\ call.restoreTimers > 0
  /\ call.prior = <<>>       \* the 100 ms timers fire in the order they were set
  /\ LET s == [World EXCEPT !.c.restoreTimers = @ - 1, !.h.restores = @ + 1]
     IN Becomes(SetMuted(s, s.c.originalMuted))

FrameCallback ==
  /\ NoMicrotask
  /\ call.frameCb = "rvfc"
  /\ Becomes(OnFrame(World))

AnimationFrame ==
  /\ NoMicrotask
  /\ call.frameCb = "raf"
  /\ Becomes(FallbackLoop(World))

RecorderDataAvailable ==
  /\ NoMicrotask
  /\ call.stopTask = "data"
  /\ LET s == [World EXCEPT !.c.stopTask = "stop", !.c.encoded = 0]
     IN Becomes(OnDataAvailable(s, call.encoded))

RecorderStopped ==
  /\ NoMicrotask
  /\ call.stopTask = "stop"
  /\ Becomes(OnStop([World EXCEPT !.c.stopTask = "done"]))

(* the encoder fails while recording: it goes inactive, fires error, then  *)
(* dataavailable and stop *)
RecorderError ==
  /\ NoMicrotask
  /\ call.recorder = "recording"
  /\ Becomes(OnError(RecorderStopCall(World)))

(* the source itself: playback advances, stalls or is paused from outside, *)
(* or reaches the end of the media *)
SourceAdvance ==
  /\ NoMicrotask
  /\ ~sourceVideo.paused /\ ~sourceVideo.ended /\ ~sourceVideo.seeking
  /\ \E t \in {p \in Positions : p > sourceVideo.currentTime} :
       sourceVideo' = [sourceVideo EXCEPT !.currentTime = t]
  /\ UNCHANGED <<call, hist, otherVars>>

(* a pause while play() is still pending rejects play(): see PlayRejected *)
SourcePaused ==
  /\ NoMicrotask
  /\ call.pc # "playWait"
  /\ ~sourceVideo.paused
  /\ sourceVideo' = [sourceVideo EXCEPT !.paused = TRUE]
  /\ UNCHANGED <<call, hist, otherVars>>

SourceEnded ==
  /\ NoMicrotask
  /\ ~sourceVideo.paused /\ ~sourceVideo.ended /\ ~sourceVideo.seeking
  /\ sourceVideo' = [sourceVideo EXCEPT !.ended = TRUE, !.paused = TRUE]
  /\ UNCHANGED <<call, hist, otherVars>>

Next ==
  \/ Record
  \/ ProcessFramesAfterSeek
  \/ PlayFulfilled
  \/ PlayRejected
  \/ SeekedEvent
  \/ SeekTimerFire
  \/ WatchdogFire
  \/ MuteRestoreFire
  \/ FrameCallback
  \/ AnimationFrame
  \/ RecorderDataAvailable
  \/ RecorderStopped
  \/ RecorderError
  \/ SourceAdvance
  \/ SourcePaused
  \/ SourceEnded

Spec == Init /\ [][Next]_vars

(* the scheduling the event loop guarantees: an armed timer fires, a queued *)
(* continuation runs, a stopped recorder delivers dataavailable and stop    *)
LiveSpec ==
  /\ Init /\ [][Next]_vars
  /\ WF_vars(ProcessFramesAfterSeek)
  /\ WF_vars(SeekTimerFire)
  /\ WF_vars(WatchdogFire)
  /\ WF_vars(RecorderDataAvailable)
  /\ WF_vars(RecorderStopped)

(***************************************************************************)
(* Properties of recordCroppedVideo.                                       *)
(***************************************************************************)
Invoked == call.pc # "idle"

MutedSource == call.safetyTimeout # "none"   \* the call got as far as muting

(* C1: every invocation eventually reaches a terminal outcome (resolved or *)
(* rejected), given only that armed timers fire and that a recorder asked  *)
(* to stop reports 'stopped'; no seeked event, play() result or frame      *)
(* callback is assumed.                                                    *)
C1_EventuallySettles == Invoked ~> Settled(call)

(* C1 witness: settled by the watchdog while the seek was never confirmed  *)
(* and play() never answered.                                              *)
C1_Witness ==
  /\ Settled(call) /\ hist.wdFired # "no"
  /\ sourceVideo.seeking /\ call.pc = "playWait" /\ call.frameCb = "none"

(* C2: for an invocation that muted the source, cleanup runs exactly once  *)
(* and the mute flag is restored exactly once, whatever triggered cleanup. *)
C2_CleanupExactlyOnce ==
  MutedSource =>
    /\ hist.cleanups <= 1
    /\ hist.restores <= 1
    /\ (Settled(call) /\ call.restoreTimers = 0 /\ call.stopTask \in {"none", "done"}
          => hist.cleanups = 1 /\ hist.restores = 1)

(* C3: if the watchdog fires before a terminal state and no bytes were     *)
(* produced, the invocation fails and the failure reported is the timeout  *)
(* (stated on the runs in which neither recorder.start() nor play() threw, *)
(* so that the watchdog is the only failure at hand).                      *)
C3_WatchdogReportsTimeout ==
  hist.wdFired = "empty" /\ Settled(call) /\ call.pc # "caught"
    => call.promise.state = "rejected" /\ call.promise.reason = "Timeout"

(* C4: if the watchdog fires before a terminal state and the encoder has   *)
(* captured a non-empty buffer, the invocation resolves with the capture.  *)
C4_WatchdogResolvesCaptured ==
  hist.wdFired = "nonempty" /\ Settled(call)
    => call.promise.state = "resolved" /\ call.promise.size > 0

(* C5: the invocation never resolves with a zero-length clip; once the     *)
(* recorder has stopped with an empty finalized buffer it is rejected.     *)
C5_NoEmptyClip ==
  /\ call.promise.state = "resolved" => call.promise.size > 0
  /\ call.stopTask = "done" /\ SumSeq(call.chunks) = 0
       => call.promise.state = "rejected"

(* C5 witness: the recorder stopped with nothing captured and the call     *)
(* was rejected for the empty output.                                      *)
C5_Witness ==
  /\ call.stopTask = "done" /\ SumSeq(call.chunks) = 0
  /\ call.promise.reason = "EmptyOutput"

C7_InvalidCropNoEffect ==
  Invoked /\ (call.crop.width <= 0 \/ call.crop.height <= 0)
    => /\ call.promise.state = "rejected"
       /\ call.promise.reason = "InvalidCrop"
       /\ call.canvas = "none" /\ call.recorder = "none"
       /\ call.safetyTimeout = "none" /\ call.seekTimer = "none"
       /\ call.restoreTimers = 0
       /\ ~hist.srcWrites
       /\ sourceVideo.muted = hist.v0.muted
       /\ ~sourceVideo.seeking

(* C7 witness: a call with crop.width = 0 has returned rejected.           *)
C7_Witness ==
  /\ call.pc = "returned" /\ call.crop.width = 0 /\ call.crop.height > 0
  /\ call.promise.state = "rejected"

(* C8: a call with endTime <= startTime or startTime < 0 is rejected with  *)
(* a validation error before any render target, encoder or watchdog exists *)
(* and before the source is touched.                                       *)
C8_InvalidRangeRejected ==
  Invoked /\ (call.endTime <= call.startTime \/ call.startTime < 0)
    => /\ call.promise.state = "rejected"
       /\ call.promise.reason \in {"InvalidCrop", "InvalidRange"}
       /\ call.canvas = "none" /\ call.recorder = "none"
       /\ call.safetyTimeout = "none"
       /\ ~hist.srcWrites

(* C9: after the terminal outcome the pipeline writes nothing more to the  *)
(* source (mute flag, position, play/pause).                               *)
C9_NoWriteAfterOutcome == ~hist.lateWrites

(* C10: when the capture loop stops because the source was paused          *)
(* mid-stream or ended before reaching endTime, the invocation fails and   *)
(* never resolves with the partial clip.                                   *)
C10_NoPartialClip ==
  hist.playbackError /\ Settled(call) => call.promise.state = "rejected"

(* C11: whenever the invocation reaches its terminal outcome after the     *)
(* encoder was started, the encoder is no longer recording, on every exit  *)
(* path (natural stop, watchdog, encoder error, failure to start playback). *)
C11_EncoderStoppedAtOutcome ==
  [][(~Settled(call) /\ Settled(call')) => call.recorder' # "recording"]_vars

(* C12: the seek step always resolves and never fails the caller: at once  *)
(* when the position read back is within 0.1 s of startTime, otherwise at  *)
(* the first of 'seeked' and the 2000 ms timeout; it resolves exactly once *)
(* and the later of the two has no effect.                                 *)
SeekWaiting == call.pc = "seekWait"

SeekResolvedPcs == {"afterSeek", "playWait", "looping", "caught"}

C12_SeekStates ==
  /\ SeekWaiting =>
       /\ ~call.isResolved /\ call.seekListener /\ call.seekTimer = "armed"
       /\ Abs(sourceVideo.currentTime - call.startTime) >= SeekEpsilonMs
  /\ call.pc \in SeekResolvedPcs => call.isResolved
  /\ call.isResolved => ~call.seekListener

C12_SeekSteps ==
  /\ (call.pc = "idle" /\ call.pc' \notin {"idle", "returned"}) =>
       (call.pc' = "afterSeek"
          <=> Abs(sourceVideo.currentTime' - call.startTime') < SeekEpsilonMs)
  /\ (call.pc' = "afterSeek" /\ call.pc # "afterSeek") =>
       call.pc \in {"idle", "seekWait"}
  /\ SeekWaiting => call.pc' \in {"seekWait", "afterSeek"}
  /\ call.isResolved => call.isResolved'

C12_SeekResolvesOnce ==
  /\ []C12_SeekStates
  /\ [][C12_SeekSteps]_vars
  /\ (SeekWaiting ~> ~SeekWaiting)

(* C12 witness: the seek was resolved, the 2000 ms timer has fired and the *)
(* 'seeked' confirmation has been delivered: the later one changed nothing *)
C12_Witness ==
  /\ call.isResolved /\ call.seekTimer = "fired" /\ ~sourceVideo.seeking
  /\ call.pc \in {"playWait", "looping"}

(***************************************************************************)
(* The frame sampler of utils/media.ts (extractFramesFromVideo).           *)
(*                                                                         *)
(* Each invocation owns a private video element.  sampler[i] is the state  *)
(* of invocation i: the closure of the Promise executor, the video element *)
(* and the record of what the invocation asked of it.  The positions of    *)
(* the sampling plan are multiples of duration / MAX_FRAMES: they are held *)
(* exactly, in units of 1/MAX_FRAMES ms.                                   *)
(***************************************************************************)
MAX_FRAMES == 90           \* media.ts:8

SamplerRanges == { [start |-> 0, end |-> 3000], [start |-> 1000, end |-> 2000],
                   [start |-> 1000, end |-> 1000], [start |-> 2000, end |-> 1000] }
Contents == {"clipA", "clipB"}

TimeUnits(ms) == MAX_FRAMES * ms

SamplerIdle ==
  [pc |-> "idle", timeRange |-> [start |-> 0, end |-> 0], content |-> "none",
   video |-> [src |-> "none", pos |-> 0, seekPending |-> 0, seekTarget |-> 0,
              errPending |-> FALSE, errored |-> FALSE],
   handlers |-> FALSE, currentTime |-> 0, frameCount |-> 0, interval |-> 0,
   frames |-> <<>>, promise |-> PendingPromise,
   seeks |-> <<>>, progress |-> <<>>, errorWhilePending |-> FALSE]

SamplerSecond == [SamplerIdle EXCEPT !.pc = "second"]

SamplerResolve(r) ==
  [r EXCEPT !.promise =
      Settle(@, [state |-> "resolved", reason |-> "none", size |-> Len(r.frames)])]

SamplerReject(r, reason) ==
  [r EXCEPT !.promise =
      Settle(@, [state |-> "rejected", reason |-> reason, size |-> 0])]

(* video.currentTime = t: one more position change asked of the video *)
SetVideoTime(r, t) ==
  [r EXCEPT !.video.seekPending = @ + 1, !.video.seekTarget = t,
            !.seeks = Append(@, t)]

(* video.src = '': the load is restarted, a pending seek is dropped and    *)
(* the element will fire 'error' for the empty source                      *)
ResetSrc(r) ==
  [r EXCEPT !.video.src = "empty", !.video.seekPending = 0,
            !.video.errPending = TRUE]

(* onProgress(num / MAX_FRAMES) *)
OnProgress(r, num) == [r EXCEPT !.progress = Append(@, num)]

CaptureFrame_OffByOne(r) ==
  IF r.currentTime > TimeUnits(r.timeRange.end) \/ r.frameCount > MAX_FRAMES
    THEN SamplerResolve(OnProgress(ResetSrc(r), MAX_FRAMES))
    ELSE SetVideoTime(r, r.currentTime)

CaptureFrame(r) ==
  IF r.currentTime > TimeUnits(r.timeRange.end) \/ r.frameCount >= MAX_FRAMES
    THEN SamplerResolve(OnProgress(ResetSrc(r), MAX_FRAMES))
    ELSE SetVideoTime(r, r.currentTime)

SamplerOnSeeked_DoubleCapture(r) ==
  LET r1 == [r EXCEPT !.frames = Append(@, r.content),
                      !.frameCount = @ + 1,
                      !.currentTime = @ + r.interval]
  IN CaptureFrame(CaptureFrame(OnProgress(r1, r1.frameCount)))

SamplerOnSeeked_FromVideo(r) ==
  LET r1 == [r EXCEPT !.frames = Append(@, r.content),
                      !.frameCount = @ + 1,
                      !.currentTime = r.video.pos + r.interval]
  IN CaptureFrame(OnProgress(r1, r1.frameCount))

(* video.onseeked *)
SamplerOnSeeked(r) ==
  LET r1 == [r EXCEPT !.frames = Append(@, r.content),
                      !.frameCount = @ + 1,
                      !.currentTime = @ + r.interval]
  IN CaptureFrame(OnProgress(r1, r1.frameCount))

SamplerOnError_Retry(r) ==
  SetVideoTime(SamplerReject(ResetSrc(r), "VideoError"), r.currentTime)

(* video.onerror *)
SamplerOnError(r) == SamplerReject(ResetSrc(r), "VideoError")

OnLoadedMetadata_StrictlyNegative(r) ==
  LET duration == r.timeRange.end - r.timeRange.start IN
  IF duration < 0
    THEN SamplerResolve([r EXCEPT !.pc = "loaded"])
    ELSE CaptureFrame([r EXCEPT !.pc = "loaded",
                                !.interval = TimeUnits(duration) \div MAX_FRAMES,
                                !.currentTime = TimeUnits(r.timeRange.start),
                                !.frameCount = 0,
                                !.handlers = TRUE])

(* video.onloadedmetadata *)
OnLoadedMetadata(r) ==
  LET duration == r.timeRange.end - r.timeRange.start IN
  IF duration <= 0
    THEN SamplerResolve([r EXCEPT !.pc = "loaded"])
    ELSE CaptureFrame([r EXCEPT !.pc = "loaded",
                                !.interval = TimeUnits(duration) \div MAX_FRAMES,
                                !.currentTime = TimeUnits(r.timeRange.start),
                                !.frameCount = 0,
                                !.handlers = TRUE])

(* the synchronous part of extractFramesFromVideo *)
ExtractFramesFromVideo(timeRange, content, ctxOK) ==
  LET r == [SamplerIdle EXCEPT !.timeRange = timeRange, !.content = content] IN
  IF ~ctxOK
    THEN SamplerReject([r EXCEPT !.pc = "nocontext"], "NoContext")
    ELSE [r EXCEPT !.pc = "loading", !.video.src = "file"]

(* where a seek may land: on the target, or just before it *)
SeekLanding(target) == {target, IF target > 0 THEN target - 1 ELSE target}

(***************************************************************************)
(* Actions of the sampler.                                                 *)
(***************************************************************************)
ExtractFrames(i) ==
  /\ sampler[i].pc = "idle"
  /\ \E tr \in SamplerRanges, content \in Contents, ctxOK \in BOOLEAN :
       sampler' = [sampler EXCEPT ![i] = ExtractFramesFromVideo(tr, content, ctxOK)]
  /\ UNCHANGED <<recorderVars, bounds, uiVars>>

(* a second invocation with the time range of the first, on another file *)
ExtractAgain ==
  /\ sampler[2].pc = "second"
  /\ sampler[1].pc \notin {"idle", "off", "second"}
  /\ \E content \in Contents \ {sampler[1].content}, ctxOK \in BOOLEAN :
       sampler' = [sampler EXCEPT ![2] =
                     ExtractFramesFromVideo(sampler[1].timeRange, content, ctxOK)]
  /\ UNCHANGED <<recorderVars, bounds, uiVars>>

VideoLoadedMetadata(i) ==
  /\ sampler[i].pc = "loading"
  /\ sampler[i].video.src = "file" /\ ~sampler[i].video.errored
  /\ sampler' = [sampler EXCEPT ![i] = OnLoadedMetadata(@)]
  /\ UNCHANGED <<recorderVars, bounds, uiVars>>

VideoSeeked(i) ==
  /\ sampler[i].pc = "loaded"
  /\ sampler[i].video.seekPending > 0
  /\ \E pos \in SeekLanding(sampler[i].video.seekTarget) :
       LET r == [sampler[i] EXCEPT !.video.seekPending = @ - 1,
                                   !.video.pos = pos]
       IN sampler' = [sampler EXCEPT ![i] =
                        IF r.handlers THEN SamplerOnSeeked(r) ELSE r]
  /\ UNCHANGED <<recorderVars, bounds, uiVars>>

(* the video element fires 'error': the media cannot be loaded or decoded, *)
(* or its source was set to the empty string                               *)
VideoError(i) ==
  /\ sampler[i].pc \in {"loading", "loaded"}
  /\ \/ sampler[i].video.src = "file" /\ ~sampler[i].video.errored
     \/ sampler[i].video.errPending
  /\ LET r == [sampler[i] EXCEPT
                 !.video.errored = TRUE, !.video.errPending = FALSE,
                 !.video.seekPending = 0,
                 !.errorWhilePending = @ \/ sampler[i].promise.state = "pending"]
     IN sampler' = [sampler EXCEPT ![i] =
                      IF r.handlers THEN SamplerOnError(r) ELSE r]
  /\ UNCHANGED <<recorderVars, bounds, uiVars>>

RecorderParked ==
  /\ sourceVideo = [muted |-> FALSE, currentTime |-> 0, paused |-> TRUE,
                    ended |-> FALSE, seeking |-> FALSE, seekTarget |-> 0]
  /\ call = InitCall
  /\ hist = [cleanups |-> 0, restores |-> 0, srcWrites |-> FALSE,
             lateWrites |-> FALSE, wdFired |-> "no", playbackError |-> FALSE,
             drawn |-> FALSE, stopBranch |-> FALSE, tick |-> "none",
             v0 |-> sourceVideo]

SamplerInit ==
  /\ RecorderParked
  /\ sampler = [i \in SamplerIds |-> IF i = 1 THEN SamplerIdle ELSE SamplerOff]
  /\ bounds = BoundsOff
  /\ UiOff

SamplerNext ==
  \E i \in {1} :
    \/ ExtractFrames(i)
    \/ VideoLoadedMetadata(i)
    \/ VideoSeeked(i)
    \/ VideoError(i)

SamplerSpec == SamplerInit /\ [][SamplerNext]_vars

(* two invocations with the same time range, each on its own video *)
PairInit ==
  /\ RecorderParked
  /\ sampler = [i \in SamplerIds |-> IF i = 1 THEN SamplerIdle ELSE SamplerSecond]
  /\ bounds = BoundsOff
  /\ UiOff

PairNext ==
  \/ ExtractAgain
  \/ \E i \in SamplerIds :
       \/ ExtractFrames(i)
       \/ VideoLoadedMetadata(i)
       \/ VideoSeeked(i)
       \/ VideoError(i)

PairSpec == PairInit /\ [][PairNext]_vars

(* the browser delivers loadedmetadata for a loadable file; nothing in the *)
(* sampler arms a timer, and the source's 'seeked' is not assumed          *)
SamplerLiveSpec ==
  /\ SamplerInit /\ [][SamplerNext]_vars
  /\ WF_vars(VideoLoadedMetadata(1))

(***************************************************************************)
(* Properties of extractFramesFromVideo.                                   *)
(***************************************************************************)
SamplerInvoked(r) == r.pc \in {"nocontext", "loading", "loaded"}

EmptyRange(r) == r.timeRange.end - r.timeRange.start <= 0

C14_SamplingPlan ==
  \A i \in SamplerIds :
    LET r == sampler[i] IN
    SamplerInvoked(r) /\ r.timeRange.start < r.timeRange.end =>
      /\ Len(r.seeks) <= MAX_FRAMES
      /\ \A k \in 1..Len(r.seeks) :
           /\ r.seeks[k] = MAX_FRAMES * r.timeRange.start
                             + (k - 1) * (r.timeRange.end - r.timeRange.start)
           /\ r.seeks[k] < MAX_FRAMES * r.timeRange.end
           /\ k > 1 => r.seeks[k - 1] < r.seeks[k]
      /\ r.promise.state = "resolved" =>
           /\ Len(r.seeks) = MAX_FRAMES
           /\ Len(r.frames) = MAX_FRAMES /\ r.promise.size = MAX_FRAMES

(* C14 witness: the range 0..3 s sampled to the end: 90 requests, the last *)
(* one at 2.9667 s (267000/90 ms), 90 frames.                              *)
C14_Witness ==
  /\ sampler[1].timeRange = [start |-> 0, end |-> 3000]
  /\ sampler[1].promise.state = "resolved"
  /\ Len(sampler[1].seeks) = MAX_FRAMES /\ Len(sampler[1].frames) = MAX_FRAMES
  /\ sampler[1].seeks[MAX_FRAMES] = 267000

(* C15: two invocations with the same (range, frame budget) ask the same   *)
(* sequence of target timestamps of their videos, whatever the content of  *)
(* the files and whenever and wherever the seeks land: the sequences agree *)
(* position by position, and are equal once both calls are resolved.       *)
C15_SamePlan ==
  LET a == sampler[1]
      b == sampler[2]
  IN (SamplerInvoked(a) /\ SamplerInvoked(b) /\ a.timeRange = b.timeRange) =>
       /\ \A k \in 1..Min(Len(a.seeks), Len(b.seeks)) : a.seeks[k] = b.seeks[k]
       /\ (a.promise.state = "resolved" /\ b.promise.state = "resolved")
            => a.seeks = b.seeks

(* C15 witness: both calls resolved on different files, with different     *)
(* frames, different landing positions, and the same 90 targets.           *)
C15_Witness ==
  /\ sampler[1].promise.state = "resolved" /\ sampler[2].promise.state = "resolved"
  /\ sampler[1].content # sampler[2].content
  /\ sampler[1].frames # sampler[2].frames
  /\ sampler[1].video.pos # sampler[2].video.pos
  /\ Len(sampler[1].seeks) = MAX_FRAMES /\ sampler[1].seeks = sampler[2].seeks

(* C16: at most one position change is pending on the video at any time,   *)
(* and one frame is captured per issued seek: the frames are the confirmed *)
(* seeks, the next seek is issued by the confirmation of the previous one. *)
C16_OneSeekAtATime ==
  \A i \in SamplerIds :
    LET r == sampler[i] IN
    SamplerInvoked(r) =>
      /\ r.video.seekPending <= 1
      /\ Len(r.frames) <= Len(r.seeks)
      /\ Len(r.seeks) <= Len(r.frames) + 1
      /\ (r.video.src = "file" /\ ~r.video.errored) =>
            Len(r.seeks) = Len(r.frames) + r.video.seekPending

(* C16 witness: the third seek is pending, two frames were captured.       *)
C16_Witness ==
  /\ sampler[1].video.seekPending = 1
  /\ Len(sampler[1].seeks) = 3 /\ Len(sampler[1].frames) = 2

(* C17: if the video errors while the call is pending (before the metadata *)
(* is available, or before or between seeks), the call is rejected: it     *)
(* neither stays pending nor resolves with the frames produced so far.     *)
C17_ErrorRejects ==
  \A i \in SamplerIds :
    sampler[i].pc # "off" /\ sampler[i].pc # "second" /\ sampler[i].pc # "idle"
      /\ sampler[i].errorWhilePending
    => sampler[i].promise.state = "rejected"

(* C18: the call eventually settles even if the video never confirms a     *)
(* requested position change.                                              *)
C18_SamplerSettles ==
  (sampler[1].pc = "loaded") ~> (sampler[1].promise.state # "pending")

(***************************************************************************)
(* The canvas set-up of recordCroppedVideo (videoUtils.ts lines 15-49) as  *)
(* a function of the crop.  The scale factor is a rational number, held    *)
(* as a fraction num/den with den > 0 and compared by cross-multiplying,   *)
(* so no rounding enters the model.                                        *)
(***************************************************************************)
MAX_DIMENSION == 1920
DefaultScale == 4

CropDims == {-10, 0, 1, 100, 480, 481, 500, 1000, 1920, 1921, 3000}
CropAreas == [width : CropDims, height : CropDims]

Frac(n, d) == [num |-> n, den |-> d]
FracLess(a, b) == a.num * b.den < b.num * a.den
FracEq(a, b) == a.num * b.den = b.num * a.den
FracMax(a, b) == IF FracLess(a, b) THEN b ELSE a

(* x * f > m *)
TimesExceeds(x, f, m) == x * f.num > m * f.den

(* Math.floor(x * f), x >= 0 *)
FloorTimes(x, f) == (x * f.num) \div f.den

ScaleFactor_NoMinimum(crop) ==
  LET s0 == Frac(DefaultScale, 1)
      s1 == IF TimesExceeds(crop.width, s0, MAX_DIMENSION)
              THEN Frac(MAX_DIMENSION, crop.width) ELSE s0
      hScale == Frac(MAX_DIMENSION, crop.height)
  IN IF TimesExceeds(crop.height, s1, MAX_DIMENSION) /\ FracLess(hScale, s1)
       THEN hScale ELSE s1

ScaleFactor(crop) ==
  LET s0 == Frac(DefaultScale, 1)
      s1 == IF TimesExceeds(crop.width, s0, MAX_DIMENSION)
              THEN Frac(MAX_DIMENSION, crop.width) ELSE s0
      hScale == Frac(MAX_DIMENSION, crop.height)
      s2 == IF TimesExceeds(crop.height, s1, MAX_DIMENSION)
              THEN (IF FracLess(hScale, s1) THEN hScale ELSE s1)
              ELSE s1
  IN FracMax(Frac(1, 1), s2)

(* lines 15-49: validation, scale factor, 2d context, canvas size *)
SetupCanvas(crop, ctxOK) ==
  IF InvalidCrop(crop)
    THEN [pc |-> "rejected", crop |-> crop, reason |-> "InvalidCrop"]
  ELSE IF ~ctxOK
    THEN [pc |-> "rejected", crop |-> crop, reason |-> "NoContext"]
  ELSE LET scaleFactor == ScaleFactor(crop) IN
       [pc |-> "sized", crop |-> crop, scaleFactor |-> scaleFactor,
        canvas |-> [width |-> FloorTimes(crop.width, scaleFactor),
                    height |-> FloorTimes(crop.height, scaleFactor)]]

ConfigureCanvas ==
  /\ bounds.pc = "input"
  /\ \E ctxOK \in BOOLEAN : bounds' = SetupCanvas(bounds.crop, ctxOK)
  /\ UNCHANGED <<recorderVars, sampler, uiVars>>

ScaleInit ==
  /\ RecorderParked
  /\ sampler = [i \in SamplerIds |-> SamplerOff]
  /\ bounds \in {[pc |-> "input", crop |-> c] : c \in CropAreas}
  /\ UiOff

ScaleNext == ConfigureCanvas

ScaleSpec == ScaleInit /\ [][ScaleNext]_vars

(* C19: the scale factor derived for a crop w x h is the one obtained by   *)
(* starting from 4, reducing to 1920/w if 4*w > 1920, reducing further to  *)
(* 1920/h if h*scale > 1920, and taking max(1, scale); this equals         *)
(* max(1, min(4, 1920/w, 1920/h)); (1000,1000) gives 1.92, (500,500) gives *)
(* 3.84; the result is always >= 1.                                        *)
C19_ScaleFactor ==
  bounds.pc = "sized" =>
    LET w == bounds.crop.width
        h == bounds.crop.height
        f == bounds.scaleFactor
        a == Frac(4, 1)
        b == IF 4 * w > 1920 THEN Frac(1920, w) ELSE a
        c == IF h * b.num > 1920 * b.den THEN Frac(1920, h) ELSE b
        stepwise == FracMax(Frac(1, 1), c)
        min(x, y) == IF FracLess(y, x) THEN y ELSE x
        closed == FracMax(Frac(1, 1),
                          min(Frac(4, 1), min(Frac(1920, w), Frac(1920, h))))
    IN /\ f.den > 0
       /\ FracEq(f, stepwise)
       /\ FracEq(f, closed)
       /\ ~FracLess(f, Frac(1, 1))
       /\ (w = 1000 /\ h = 1000) => FracEq(f, Frac(192, 100))
       /\ (w = 500 /\ h = 500) => FracEq(f, Frac(384, 100))

(* C19 witness: the crop 1000 x 1000 has been given the factor 1.92.       *)
C19_Witness ==
  /\ bounds.pc = "sized"
  /\ bounds.crop = [width |-> 1000, height |-> 1000]
  /\ bounds.scaleFactor.num * 100 = 192 * bounds.scaleFactor.den

(* C20: for every accepted crop (width > 0, height > 0) the canvas width   *)
(* floor(crop.width*scale) and height floor(crop.height*scale) never       *)
(* exceed the maximum dimension 1920.                                      *)
C20_CanvasWithinMaxDimension ==
  bounds.pc = "sized" =>
    /\ bounds.canvas.width <= MAX_DIMENSION
    /\ bounds.canvas.height <= MAX_DIMENSION

(***************************************************************************)
(* Properties of recordCroppedVideo, continued.                            *)
(***************************************************************************)
ResourceFailure(c) ==
  c.promise.state = "rejected" /\ c.promise.reason \in {"NoContext", "RecorderInit"}

(* C21: if the set-up fails with a resource error (no 2d context, or both  *)
(* MediaRecorder constructions throw: first with the 8 Mbps bitrate, then  *)
(* without options), the call rejects with the source's mute flag,         *)
(* position and play state unchanged and with no watchdog armed; the       *)
(* second construction is attempted only after the first has failed.       *)
C21_ResourceFailureStates ==
  /\ ResourceFailure(call) =>
       /\ ~hist.srcWrites
       /\ call.safetyTimeout = "none" /\ call.restoreTimers = 0
       /\ call.seekTimer = "none" /\ call.recorder = "none"
       /\ call.promise.reason = "NoContext" => call.recAttempts = 0
       /\ call.promise.reason = "RecorderInit" => call.recAttempts = 2
  /\ call.recAttempts \in 0..2
  /\ (call.recorder # "none" /\ call.canvas = "ready") => call.recAttempts \in 1..2

C21_ResourceFailureNoEffect ==
  /\ []C21_ResourceFailureStates
  /\ [][ResourceFailure(call') /\ ~ResourceFailure(call) =>
          /\ sourceVideo' = sourceVideo
          /\ call.pc = "idle" /\ call'.pc = "returned"]_vars
  /\ [][ResourceFailure(call) => call' = call]_vars

(* C21 witness: both constructions failed and the call is rejected, the    *)
(* source being unmuted and playing as it was.                             *)
C21_Witness ==
  /\ call.promise.state = "rejected" /\ call.promise.reason = "RecorderInit"
  /\ call.recAttempts = 2
  /\ ~sourceVideo.muted /\ ~sourceVideo.paused /\ sourceVideo = hist.v0

(***************************************************************************)
(* components/TimeSelector.tsx: the range state of the component, the      *)
(* drag of its two handles and the confirm button.  Times are integer      *)
(* milliseconds; a mouse move is the time delta it amounts to,             *)
(* (dx / timelineRect.width) * duration.                                   *)
(***************************************************************************)
Durations == {0, 3000, 5000}
TimeDeltas == {-6000, -2000, -500, 0, 500, 2000, 6000}

Max(a, b) == IF a > b THEN a ELSE b

NoDrag == [active |-> FALSE, type |-> "none", startRange |-> [start |-> 0, end |-> 0]]

(* useState({start: 0, end: 0}), refs, before the first effects *)
TimeSelectorMount(duration) ==
  [pc |-> "rendered", duration |-> duration,
   range |-> [start |-> 0, end |-> 0],
   hasInitialized |-> FALSE, dragInfo |-> NoDrag,
   videoTime |-> 0,
   confirmed |-> FALSE, handed |-> [start |-> 0, end |-> 0]]

(* the effect on [duration] *)
InitRangeEffect(t) ==
  IF t.duration > 0 /\ ~t.hasInitialized
    THEN [t EXCEPT !.range = [start |-> 0, end |-> t.duration],
                   !.hasInitialized = TRUE, !.pc = "ready"]
    ELSE [t EXCEPT !.pc = "ready"]

HandleMouseDown(t, type) ==
  [t EXCEPT !.dragInfo = [active |-> TRUE, type |-> type, startRange |-> t.range]]

(* rangeRef.current is the rendered range: the effect on [range] has run   *)
(* by the time the next event is handled                                   *)
HandleMouseMove(t, timeDelta) ==
  IF ~t.dragInfo.active THEN t
  ELSE IF t.dragInfo.type = "start"
    THEN LET newStart == t.dragInfo.startRange.start + timeDelta
             clampedStart == Max(0, Min(t.range.end, newStart))
         IN [t EXCEPT !.range.start = clampedStart, !.videoTime = clampedStart]
    ELSE LET newEnd == t.dragInfo.startRange.end + timeDelta
             clampedEnd == Min(t.duration, Max(t.range.start, newEnd))
         IN [t EXCEPT !.range.end = clampedEnd, !.videoTime = clampedEnd]

HandleMouseUp(t) == [t EXCEPT !.dragInfo = NoDrag]

(* onClick={() => onConfirm(range)} *)
ConfirmTime(t) == [t EXCEPT !.confirmed = TRUE, !.handed = t.range, !.pc = "done"]

SelectorEffects ==
  /\ selector.pc = "rendered"
  /\ selector' = InitRangeEffect(selector)
  /\ UNCHANGED <<recorderVars, sampler, bounds, cropper, app>>

SelectorMouseDown ==
  /\ selector.pc = "ready"
  /\ \E type \in {"start", "end"} : selector' = HandleMouseDown(selector, type)
  /\ UNCHANGED <<recorderVars, sampler, bounds, cropper, app>>

SelectorMouseMove ==
  /\ selector.pc = "ready"
  /\ \E timeDelta \in TimeDeltas : selector' = HandleMouseMove(selector, timeDelta)
  /\ UNCHANGED <<recorderVars, sampler, bounds, cropper, app>>

SelectorMouseUp ==
  /\ selector.pc = "ready"
  /\ selector' = HandleMouseUp(selector)
  /\ UNCHANGED <<recorderVars, sampler, bounds, cropper, app>>

SelectorConfirm ==
  /\ selector.pc = "ready"
  /\ selector' = ConfirmTime(selector)
  /\ UNCHANGED <<recorderVars, sampler, bounds, cropper, app>>

SelectorInit ==
  /\ RecorderParked
  /\ sampler = [i \in SamplerIds |-> SamplerOff]
  /\ bounds = BoundsOff
  /\ selector \in {TimeSelectorMount(d) : d \in Durations}
  /\ cropper = CropperOff
  /\ app = AppOff

SelectorNext ==
  \/ SelectorEffects
  \/ SelectorMouseDown
  \/ SelectorMouseMove
  \/ SelectorMouseUp
  \/ SelectorConfirm

SelectorSpec == SelectorInit /\ [][SelectorNext]_vars

(* C22: every TimeRange handed to onConfirm satisfies                      *)
(* 0 <= start < end <= duration, after any sequence of drags of the two    *)
(* handles, and when confirmed before any drag or before the               *)
(* initialisation from the duration.  Stated here for the confirmations    *)
(* made after the initialisation from a positive duration, the case most   *)
(* favourable to the property.                                             *)
C22_ConfirmedRangeValid ==
  (selector.pc = "done" /\ selector.confirmed /\ selector.hasInitialized) =>
    /\ 0 <= selector.handed.start
    /\ selector.handed.start < selector.handed.end
    /\ selector.handed.end <= selector.duration

(***************************************************************************)
(* components/Cropper.tsx: the crop box in screen coordinates, the drag of *)
(* the box and of its corners, and handleConfirm, which converts the box   *)
(* to the video's natural coordinates.  Lengths are held in half pixels,   *)
(* so that the halves the centring of the box produces are exact; the      *)
(* geometries have a whole ratio videoWidth / renderWidth.                 *)
(***************************************************************************)
MaxDrags == 2              \* mouse-downs on the crop box in one run

MinBox == 40               \* Cropper.tsx:180, 20 px
DefaultBoxWidth == 400     \* Cropper.tsx:93, 200 px
DefaultBoxHeight == 200    \* Cropper.tsx:94, 100 px

(* video 641 x 481 shown at its own size; video 1280 x 720 shown at        *)
(* 640 x 360, 60 px below the top of the container                         *)
CropperGeoms ==
  { [videoWidth |-> 1282, videoHeight |-> 962, renderWidth |-> 1282,
     renderHeight |-> 962, xOffset |-> 0, yOffset |-> 0],
    [videoWidth |-> 2560, videoHeight |-> 1440, renderWidth |-> 1280,
     renderHeight |-> 720, xOffset |-> 0, yOffset |-> 120] }

NoGeom == [videoWidth |-> 0, videoHeight |-> 0, renderWidth |-> 0,
           renderHeight |-> 0, xOffset |-> 0, yOffset |-> 0]

NoCrop == [x |-> 0, y |-> 0, width |-> 0, height |-> 0]

(* initialCropArea: null (width 0 here), or the crop of an earlier pass *)
InitialCropAreas == { NoCrop, [x |-> 200, y |-> 200, width |-> 400, height |-> 200] }

DragTypes == {"move", "top-left", "top-right", "bottom-left", "bottom-right"}
DragDeltas == {-1500, -3, 0, 1500}

Includes(type, side) ==
  \/ side = "left" /\ type \in {"top-left", "bottom-left"}
  \/ side = "right" /\ type \in {"top-right", "bottom-right"}
  \/ side = "top" /\ type \in {"top-left", "top-right"}
  \/ side = "bottom" /\ type \in {"bottom-left", "bottom-right"}

(* Math.round of a length held in half pixels, in pixels *)
Round(h) == (h + 1) \div 2

CropperMount(initialCropArea) ==
  [pc |-> "mounted", initialCropArea |-> initialCropArea,
   videoGeom |-> NoGeom, cropBox |-> NoCrop,
   dragInfo |-> [active |-> FALSE, type |-> "", startBox |-> NoCrop],
   initialCropSet |-> FALSE, drags |-> 0,
   confirmed |-> FALSE, finalCrop |-> NoCrop]

(* calculateGeom, then the effect on [videoGeom, initialCropArea] *)
CalculateGeom(c, g) ==
  LET c1 == [c EXCEPT !.videoGeom = g, !.pc = "ready"] IN
  IF g.renderWidth > 0 /\ g.videoWidth > 0 /\ ~c.initialCropSet
    THEN IF c.initialCropArea.width > 0
      THEN [c1 EXCEPT
              !.cropBox =
                 [x |-> (c.initialCropArea.x * g.renderWidth) \div g.videoWidth
                          + g.xOffset,
                  y |-> (c.initialCropArea.y * g.renderHeight) \div g.videoHeight
                          + g.yOffset,
                  width |-> (c.initialCropArea.width * g.renderWidth)
                               \div g.videoWidth,
                  height |-> (c.initialCropArea.height * g.renderHeight)
                               \div g.videoHeight],
              !.initialCropSet = TRUE]
      ELSE LET initialWidth == Min(DefaultBoxWidth, (g.renderWidth * 8) \div 10)
               initialHeight == Min(DefaultBoxHeight, (g.renderHeight * 5) \div 10)
           IN [c1 EXCEPT
                 !.cropBox =
                    [x |-> g.xOffset + (g.renderWidth - initialWidth) \div 2,
                     y |-> g.yOffset + (g.renderHeight - initialHeight) \div 2,
                     width |-> initialWidth, height |-> initialHeight],
                 !.initialCropSet = TRUE]
    ELSE c1

CropperMouseDownHandler(c, type) ==
  [c EXCEPT !.dragInfo = [active |-> TRUE, type |-> type, startBox |-> c.cropBox],
            !.drags = @ + 1]

CropperMouseMoveHandler(c, dx, dy) ==
  IF ~c.dragInfo.active \/ c.videoGeom.renderWidth = 0 THEN c
  ELSE
  LET type == c.dragInfo.type
      b0 == c.dragInfo.startBox
      left == c.videoGeom.xOffset
      top == c.videoGeom.yOffset
      right == c.videoGeom.xOffset + c.videoGeom.renderWidth
      bottom == c.videoGeom.yOffset + c.videoGeom.renderHeight
      (* lines 164-178 *)
      b1 == IF type = "move"
              THEN [b0 EXCEPT !.x = @ + dx, !.y = @ + dy]
              ELSE [x |-> IF Includes(type, "left") THEN b0.x + dx ELSE b0.x,
                    y |-> IF Includes(type, "top") THEN b0.y + dy ELSE b0.y,
                    width |-> IF Includes(type, "right") THEN b0.width + dx
                              ELSE IF Includes(type, "left") THEN b0.width - dx
                              ELSE b0.width,
                    height |-> IF Includes(type, "bottom") THEN b0.height + dy
                               ELSE IF Includes(type, "top") THEN b0.height - dy
                               ELSE b0.height]
      (* lines 180-189 *)
      b2 == IF b1.width < MinBox
              THEN [b1 EXCEPT !.width = MinBox,
                       !.x = IF Includes(type, "left")
                               THEN @ - (MinBox - b1.width) ELSE @]
              ELSE b1
      b3 == IF b2.height < MinBox
              THEN [b2 EXCEPT !.height = MinBox,
                       !.y = IF Includes(type, "top")
                               THEN @ - (MinBox - b2.height) ELSE @]
              ELSE b2
      (* lines 191-198 *)
      b4 == IF b3.x < left
              THEN [b3 EXCEPT !.width = IF Includes(type, "left")
                                           THEN @ + (b3.x - left) ELSE @,
                              !.x = left]
              ELSE b3
      b5 == IF b4.y < top
              THEN [b4 EXCEPT !.height = IF Includes(type, "top")
                                            THEN @ + (b4.y - top) ELSE @,
                              !.y = top]
              ELSE b4
      (* lines 200-205 *)
      b6 == IF b5.x + b5.width > right
              THEN [b5 EXCEPT !.width = right - b5.x] ELSE b5
      b7 == IF b6.y + b6.height > bottom
              THEN [b6 EXCEPT !.height = bottom - b6.y] ELSE b6
  IN [c EXCEPT !.cropBox = b7]

CropperMouseUpHandler(c) == [c EXCEPT !.dragInfo.active = FALSE]

HandleConfirm(c) ==
  IF c.videoGeom.renderWidth = 0 THEN c
  ELSE
  LET g == c.videoGeom
      natX0 == ((c.cropBox.x - g.xOffset) * g.videoWidth) \div g.renderWidth
      natY0 == ((c.cropBox.y - g.yOffset) * g.videoHeight) \div g.renderHeight
      natWidth0 == (c.cropBox.width * g.videoWidth) \div g.renderWidth
      natHeight0 == (c.cropBox.height * g.videoHeight) \div g.renderHeight
      natX == Max(0, natX0)
      natY == Max(0, natY0)
      natWidth1 == IF natX + natWidth0 > g.videoWidth
                     THEN g.videoWidth - natX ELSE natWidth0
      natHeight1 == IF natY + natHeight0 > g.videoHeight
                      THEN g.videoHeight - natY ELSE natHeight0
      natWidth == Max(0, natWidth1)
      natHeight == Max(0, natHeight1)
  IN [c EXCEPT !.confirmed = TRUE, !.pc = "done",
               !.finalCrop = [x |-> Round(natX), y |-> Round(natY),
                              width |-> Round(natWidth),
                              height |-> Round(natHeight)]]

CropperGeometry ==
  /\ cropper.pc = "mounted"
  /\ \E g \in CropperGeoms : cropper' = CalculateGeom(cropper, g)
  /\ UNCHANGED <<recorderVars, sampler, bounds, selector, app>>

CropperMouseDown ==
  /\ cropper.pc = "ready" /\ cropper.drags < MaxDrags
  /\ \E type \in DragTypes : cropper' = CropperMouseDownHandler(cropper, type)
  /\ UNCHANGED <<recorderVars, sampler, bounds, selector, app>>

CropperMouseMove ==
  /\ cropper.pc = "ready"
  /\ \E dx \in DragDeltas, dy \in DragDeltas :
       cropper' = CropperMouseMoveHandler(cropper, dx, dy)
  /\ UNCHANGED <<recorderVars, sampler, bounds, selector, app>>

CropperMouseUp ==
  /\ cropper.pc = "ready"
  /\ cropper' = CropperMouseUpHandler(cropper)
  /\ UNCHANGED <<recorderVars, sampler, bounds, selector, app>>

CropperConfirm ==
  /\ cropper.pc \in {"mounted", "ready"}
  /\ cropper' = HandleConfirm(cropper)
  /\ UNCHANGED <<recorderVars, sampler, bounds, selector, app>>

CropperInit ==
  /\ RecorderParked
  /\ sampler = [i \in SamplerIds |-> SamplerOff]
  /\ bounds = BoundsOff
  /\ selector = SelectorOff
  /\ cropper \in {CropperMount(a) : a \in InitialCropAreas}
  /\ app = AppOff

CropperNext ==
  \/ CropperGeometry
  \/ CropperMouseDown
  \/ CropperMouseMove
  \/ CropperMouseUp
  \/ CropperConfirm

CropperSpec == CropperInit /\ [][CropperNext]_vars

(* C24: the clamping of the crop rejects a crop whose clamped width or     *)
(* height is <= 0: handleConfirm never passes a CropArea with width <= 0   *)
(* or height <= 0 to onCropConfirm.                                        *)
C24_NoEmptyCropConfirmed ==
  cropper.pc = "done" /\ cropper.confirmed =>
    cropper.finalCrop.width > 0 /\ cropper.finalCrop.height > 0

(***************************************************************************)
(* The single-screen App (App.tsx, src/unnamed/part_000): upload, crop     *)
(* editing, processAndAnalyze and the time-update loop.  A call of         *)
(* recordCroppedVideo is seen from the App as the promise it awaits; the   *)
(* <video> element is a new one each time the editor view is mounted.      *)
(* React commits a state change in a later step (AppRender); a click is    *)
(* dispatched only when the pending changes are committed.                 *)
(***************************************************************************)
MaxUploads == 2            \* files uploaded in one run
MaxResizes == 2            \* clicks on the resize buttons

MAX_VIDEO_DURATION_SEC == 10   \* part_000:69
DefaultEndMs == 5000           \* part_000:159, 5 s
MinCropSize == 50              \* part_000:249
ResizeStep == 20               \* part_000:449-450

AppDurations == {8000}
AppDimensions == { [width |-> 1000, height |-> 800] }
AppPositions == {0, 5000}
AppDeltas == {-1000, 1000}
SliderValues == {0, 2000}

Elements == 1..MaxUploads

AppMount ==
  [pc |-> "upload", el |-> 0, uploads |-> 0,
   status |-> "IDLE", statusRef |-> "IDLE", isPlaying |-> FALSE,
   resultText |-> FALSE,
   rendered |-> [status |-> "IDLE", isPlaying |-> FALSE],
   startTime |-> 0, endTime |-> 0,
   crop |-> NoCrop, videoDimensions |-> [width |-> 0, height |-> 0],
   isDragging |-> FALSE, startCrop |-> NoCrop, drags |-> 0, resizes |-> 0,
   video |-> [currentTime |-> 0, paused |-> TRUE, metadata |-> FALSE],
   runs |-> [e \in Elements |-> "none"],
   handed |-> [given |-> FALSE, crop |-> NoCrop],
   overlap |-> FALSE, lastTimeUpdate |-> "none"]

AppIsOn == app.pc \in {"upload", "editor"}

Committed(a) == a.rendered = [status |-> a.status, isPlaying |-> a.isPlaying]

(* handleFile with a video file; the editor view and its <video> mount *)
HandleFile(a) ==
  [a EXCEPT !.pc = "editor", !.status = "IDLE", !.resultText = FALSE,
            !.uploads = @ + 1, !.el = a.uploads + 1,
            !.video = [currentTime |-> 0, paused |-> TRUE, metadata |-> FALSE]]

HandleLoadedMetadata(a, duration, dims) ==
  LET initialSize == (Min(dims.width, dims.height) * 4) \div 10 IN
  [a EXCEPT !.endTime = Min(duration, DefaultEndMs),
            !.videoDimensions = dims,
            !.video.metadata = TRUE,
            !.crop = [x |-> (dims.width - initialSize) \div 2,
                      y |-> (dims.height - initialSize) \div 2,
                      width |-> initialSize, height |-> initialSize]]

AppHandleMouseDown(a) ==
  [a EXCEPT !.isDragging = TRUE, !.startCrop = a.crop, !.drags = @ + 1]

AppHandleMouseMove(a, dx, dy) ==
  IF ~a.isDragging THEN a
  ELSE LET newX == Max(0, Min(a.startCrop.x + dx,
                              a.videoDimensions.width - a.crop.width))
           newY == Max(0, Min(a.startCrop.y + dy,
                              a.videoDimensions.height - a.crop.height))
       IN [a EXCEPT !.crop.x = newX, !.crop.y = newY]

AppHandleMouseUp(a) == [a EXCEPT !.isDragging = FALSE]

HandleResizeCrop(a, deltaSize) ==
  LET newSize == Max(MinCropSize,
                     Min(a.crop.width + deltaSize,
                         Min(a.videoDimensions.width, a.videoDimensions.height)))
  IN [a EXCEPT !.crop.width = newSize, !.crop.height = newSize,
               !.resizes = @ + 1]

TogglePlay(a) ==
  LET v == IF a.isPlaying
             THEN [a.video EXCEPT !.paused = TRUE]
             ELSE [a.video EXCEPT
                     !.currentTime = IF @ >= a.endTime THEN a.startTime ELSE @,
                     !.paused = FALSE]
  IN [a EXCEPT !.video = v, !.isPlaying = ~a.isPlaying]

(* onChange of the start-time range input *)
HandleStartChange(a, val) ==
  IF val < a.endTime
    THEN [a EXCEPT !.startTime = val, !.video.currentTime = val]
    ELSE a

ProcessAndAnalyze_NoRefWrite(a) ==
  IF a.endTime - a.startTime > MAX_VIDEO_DURATION_SEC * 1000 THEN a
  ELSE IF a.crop.width <= 0 \/ a.crop.height <= 0 THEN a
  ELSE [a EXCEPT !.isPlaying = FALSE,
                 !.status = "CROPPING",
                 !.runs[a.el] = "recording",
                 !.overlap = @ \/ a.runs[a.el] = "recording",
                 !.handed = [given |-> TRUE, crop |-> a.crop],
                 !.video.currentTime = a.startTime,
                 !.video.paused = FALSE]

(* up to the await of recordCroppedVideo, which seeks the source to        *)
(* startTime and plays it                                                  *)
ProcessAndAnalyze(a) ==
  IF a.endTime - a.startTime > MAX_VIDEO_DURATION_SEC * 1000 THEN a
  ELSE IF a.crop.width <= 0 \/ a.crop.height <= 0 THEN a
  ELSE [a EXCEPT !.isPlaying = FALSE,
                 !.status = "CROPPING", !.statusRef = "CROPPING",
                 !.runs[a.el] = "recording",
                 !.overlap = @ \/ a.runs[a.el] = "recording",
                 !.handed = [given |-> TRUE, crop |-> a.crop],
                 !.video.currentTime = a.startTime,
                 !.video.paused = FALSE]

(* the continuation after await recordCroppedVideo, or the catch block *)
AfterRecord(a, e, ok) ==
  IF ok THEN [a EXCEPT !.status = "ANALYZING", !.statusRef = "ANALYZING",
                       !.runs[e] = "analyzing"]
        ELSE [a EXCEPT !.status = "ERROR", !.statusRef = "ERROR",
                       !.runs[e] = "done"]

(* the continuation after await analyzeLipReading, or the catch block *)
AfterAnalysis(a, e, ok) ==
  IF ok THEN [a EXCEPT !.resultText = TRUE,
                       !.status = "COMPLETED", !.statusRef = "COMPLETED",
                       !.runs[e] = "done"]
        ELSE [a EXCEPT !.status = "ERROR", !.statusRef = "ERROR",
                       !.runs[e] = "done"]

(* reset; the editor view and its <video> unmount *)
Reset(a) ==
  [a EXCEPT !.pc = "upload", !.el = 0, !.resultText = FALSE,
            !.status = "IDLE", !.statusRef = "IDLE", !.isPlaying = FALSE,
            !.isDragging = FALSE]

(* a commit, with the effect on [status] *)
Render(a) ==
  [a EXCEPT !.rendered = [status |-> a.status, isPlaying |-> a.isPlaying],
            !.statusRef = IF a.status # a.rendered.status THEN a.status ELSE @]

HandleTimeUpdate(a) ==
  IF a.statusRef # "IDLE" THEN [a EXCEPT !.lastTimeUpdate = "skipped"]
  ELSE IF a.video.currentTime >= a.endTime
    THEN [a EXCEPT !.video.currentTime = a.startTime,
                   !.video.paused = IF ~a.rendered.isPlaying THEN TRUE ELSE @,
                   !.lastTimeUpdate = "looped"]
    ELSE [a EXCEPT !.lastTimeUpdate = "passed"]

OthersParked ==
  UNCHANGED <<recorderVars, sampler, bounds, selector, cropper>>

AppUpload ==
  /\ app.pc = "upload" /\ app.uploads < MaxUploads
  /\ app' = HandleFile(app)
  /\ OthersParked

AppLoadedMetadata ==
  /\ app.pc = "editor" /\ ~app.video.metadata
  /\ \E d \in AppDurations, dims \in AppDimensions :
       app' = HandleLoadedMetadata(app, d, dims)
  /\ OthersParked

AppMouseDown ==
  /\ app.pc = "editor" /\ app.video.metadata /\ Committed(app)
  /\ app.drags < MaxDrags
  /\ app' = AppHandleMouseDown(app)
  /\ OthersParked

AppMouseMove ==
  /\ app.pc = "editor" /\ app.isDragging
  /\ \E dx \in AppDeltas, dy \in AppDeltas : app' = AppHandleMouseMove(app, dx, dy)
  /\ OthersParked

AppMouseUp ==
  /\ app.pc = "editor" /\ app.isDragging
  /\ app' = AppHandleMouseUp(app)
  /\ OthersParked

AppResize ==
  /\ app.pc = "editor" /\ app.video.metadata /\ Committed(app)
  /\ app.resizes < MaxResizes
  /\ \E deltaSize \in {ResizeStep, 0 - ResizeStep} :
       app' = HandleResizeCrop(app, deltaSize)
  /\ OthersParked

AppTogglePlay ==
  /\ app.pc = "editor" /\ app.video.metadata /\ Committed(app)
  /\ app' = TogglePlay([app EXCEPT !.isPlaying = app.rendered.isPlaying])
  /\ OthersParked

AppStartSlider ==
  /\ app.pc = "editor" /\ app.video.metadata /\ Committed(app)
  /\ \E val \in SliderValues : app' = HandleStartChange(app, val)
  /\ OthersParked

AppAnalyze ==
  /\ app.pc = "editor" /\ Committed(app)
  /\ app.rendered.status = "IDLE"
  /\ app' = ProcessAndAnalyze(app)
  /\ OthersParked

AppRecordSettled ==
  /\ AppIsOn
  /\ \E e \in Elements, ok \in BOOLEAN :
       /\ app.runs[e] = "recording"
       /\ app' = AfterRecord(app, e, ok)
  /\ OthersParked

AppAnalysisSettled ==
  /\ AppIsOn
  /\ \E e \in Elements, ok \in BOOLEAN :
       /\ app.runs[e] = "analyzing"
       /\ app' = AfterAnalysis(app, e, ok)
  /\ OthersParked

AppReset ==
  /\ app.pc = "editor" /\ Committed(app)
  /\ app' = Reset(app)
  /\ OthersParked

AppRender ==
  /\ AppIsOn /\ ~Committed(app)
  /\ app' = Render(app)
  /\ OthersParked

AppTimeUpdate ==
  /\ app.pc = "editor"
  /\ app' = HandleTimeUpdate(app)
  /\ OthersParked

(* playback of the mounted video, whoever started it *)
AppVideoAdvance ==
  /\ app.pc = "editor" /\ ~app.video.paused
  /\ \E t \in {p \in AppPositions : p > app.video.currentTime} :
       app' = [app EXCEPT !.video.currentTime = t]
  /\ OthersParked

(* the life of the App around processAndAnalyze; the editing of the crop  *)
(* is independent of it and is explored by CropSpec                        *)
AppNext ==
  \/ AppUpload
  \/ AppLoadedMetadata
  \/ AppTogglePlay
  \/ AppStartSlider
  \/ AppAnalyze
  \/ AppRecordSettled
  \/ AppAnalysisSettled
  \/ AppReset
  \/ AppRender
  \/ AppTimeUpdate
  \/ AppVideoAdvance

AppInit ==
  /\ RecorderParked
  /\ sampler = [i \in SamplerIds |-> SamplerOff]
  /\ bounds = BoundsOff
  /\ selector = SelectorOff
  /\ cropper = CropperOff
  /\ app = AppMount

AppSpec == AppInit /\ [][AppNext]_vars

(* the two crop editors, each up to the hand-over of the crop: Cropper up  *)
(* to onCropConfirm, the App up to the call of recordCroppedVideo          *)
CropInit == CropperInit \/ AppInit

CropNext ==
  \/ CropperNext
  \/ AppUpload
  \/ AppLoadedMetadata
  \/ AppMouseDown
  \/ AppMouseMove
  \/ AppMouseUp
  \/ AppResize
  \/ AppAnalyze
  \/ AppRender

CropSpec == CropInit /\ [][CropNext]_vars

InsideVideo(crop, width, height) ==
  /\ crop.x >= 0 /\ crop.y >= 0
  /\ crop.x + crop.width <= width
  /\ crop.y + crop.height <= height

(* C23: every CropArea the user interface hands to the pipeline (Cropper's *)
(* onCropConfirm after clamping and rounding; the App's crop when          *)
(* processAndAnalyze starts, after any drags and resize clicks) satisfies  *)
(* x >= 0, y >= 0, x + width <= nativeWidth, y + height <= nativeHeight.   *)
C23_CropInsideVideo ==
  /\ (cropper.pc = "done" /\ cropper.confirmed) =>
        InsideVideo(cropper.finalCrop, cropper.videoGeom.videoWidth \div 2,
                    cropper.videoGeom.videoHeight \div 2)
  /\ (AppIsOn /\ app.handed.given) =>
        InsideVideo(app.handed.crop, app.videoDimensions.width,
                    app.videoDimensions.height)

RunInFlight(a) == a.el # 0 /\ a.runs[a.el] = "recording"

(* C30: while a recordCroppedVideo call started by the App is in flight    *)
(* (the status is not IDLE), handleTimeUpdate never changes the position   *)
(* of the video and never pauses it, also for a time-update event          *)
(* delivered between the click on Analyze and the next render.             *)
C30_LoopDisabledWhileRecording ==
  [][(AppIsOn /\ RunInFlight(app) /\ app.status # "IDLE" /\ AppTimeUpdate)
       => app'.video = app.video]_vars

(* C30 witness: a time update arrived after the click on Analyze and       *)
(* before the render, with the video at the end of the trim selection; the *)
(* handler returned at once.                                               *)
C30_Witness ==
  /\ AppIsOn /\ RunInFlight(app)
  /\ app.status = "CROPPING" /\ app.rendered.status = "IDLE"
  /\ app.lastTimeUpdate = "skipped"
  /\ app.video.currentTime >= app.endTime /\ ~app.video.paused

(***************************************************************************)
(* The staged App (App.tsx, src/unnamed/part_001): upload, time selection, *)
(* crop, preview, and the two operations that call                         *)
(* extractFramesFromVideo on the uploaded file (handleTranscribe and       *)
(* handleDebug through getProcessedFrames).  An operation is seen as the   *)
(* promise its handler awaits.                                             *)
(***************************************************************************)
MaxOps == 2                \* calls of getProcessedFrames in one run

OpIds == 1..MaxOps
NoOp == [pc |-> "none", file |-> "none", task |-> "none", stale |-> FALSE]

StageMount ==
  [pc |-> "stage", currentStage |-> "uploading", status |-> "idle",
   videoFile |-> "none", metadataPending |-> FALSE,
   cropArea |-> FALSE, timeRange |-> FALSE,
   transcription |-> FALSE, debugFrames |-> FALSE,
   timeConfirmed |-> FALSE, cropConfirmed |-> FALSE,
   ops |-> [o \in OpIds |-> NoOp], started |-> 0, overlap |-> FALSE]

StageIsOn == app.pc = "stage"

IsProcessing(a) == a.status \in {"processing", "analyzing"}

CanTranscribe(a) ==
  /\ a.videoFile # "none" /\ a.cropArea /\ ~IsProcessing(a)
  /\ a.currentStage = "preview"

(* resetState; it cancels nothing: an operation still in flight is only    *)
(* noted as started before the reset, and the confirmations made for the   *)
(* video that is dropped are forgotten                                     *)
ResetState(a) ==
  [a EXCEPT !.videoFile = "none", !.cropArea = FALSE,
            !.transcription = FALSE, !.debugFrames = FALSE,
            !.currentStage = "uploading", !.status = "idle",
            !.timeConfirmed = FALSE, !.cropConfirmed = FALSE,
            !.ops = [o \in OpIds |->
                       IF a.ops[o].pc \in {"extracting", "transcribing"}
                         THEN [a.ops[o] EXCEPT !.stale = TRUE]
                         ELSE a.ops[o]]]

(* processFile with a video file *)
ProcessFile(a, file) ==
  [ResetState(a) EXCEPT !.videoFile = file, !.metadataPending = TRUE]

(* video.onloadedmetadata of processFile *)
FileLoadedMetadata(a) ==
  [a EXCEPT !.metadataPending = FALSE, !.timeRange = TRUE,
            !.currentStage = "selecting_time", !.status = "idle"]

HandleTimeSelectConfirm(a) ==
  [a EXCEPT !.timeRange = TRUE, !.currentStage = "cropping_area",
            !.status = "idle", !.timeConfirmed = TRUE]

HandleCropConfirm(a) ==
  [a EXCEPT !.cropArea = TRUE, !.currentStage = "preview", !.status = "idle",
            !.cropConfirmed = TRUE]

(* getProcessedFrames up to the call of extractFramesFromVideo *)
GetProcessedFrames(a, task) ==
  IF a.videoFile = "none" \/ ~a.cropArea \/ ~a.timeRange
    THEN [a EXCEPT !.status = "error"]
    ELSE [a EXCEPT
            !.status = "processing",
            !.started = @ + 1,
            !.ops[a.started + 1] =
               [pc |-> "extracting", file |-> a.videoFile, task |-> task,
                stale |-> FALSE],
            !.overlap = @ \/ \E o \in OpIds :
                               /\ a.ops[o].pc = "extracting"
                               /\ a.ops[o].file = a.videoFile]

HandleTranscribe(a) ==
  GetProcessedFrames([a EXCEPT !.currentStage = "processing"], "transcription")

HandleDebug(a) == GetProcessedFrames(a, "debug")

(* the onProgress callback given to extractFramesFromVideo *)
ProgressCallback(a) == [a EXCEPT !.status = "processing"]

(* the continuation after await getProcessedFrames, or the catch block *)
AfterFrames(a, o, ok) ==
  IF ~ok THEN [a EXCEPT !.status = "error", !.ops[o].pc = "done"]
  ELSE IF a.ops[o].task = "transcription"
    THEN [a EXCEPT !.status = "analyzing", !.ops[o].pc = "transcribing"]
    ELSE [a EXCEPT !.debugFrames = TRUE, !.currentStage = "debugging",
                   !.status = "idle", !.ops[o].pc = "done"]

(* the continuation after await transcribeVideoFromFrames, or the catch *)
AfterTranscription(a, o, ok) ==
  IF ok THEN [a EXCEPT !.transcription = TRUE, !.status = "success",
                       !.ops[o].pc = "done"]
        ELSE [a EXCEPT !.status = "error", !.ops[o].pc = "done"]

StageUpload ==
  /\ StageIsOn /\ app.currentStage = "uploading" /\ ~IsProcessing(app)
  /\ \E file \in Contents : app' = ProcessFile(app, file)
  /\ OthersParked

StageLoadedMetadata ==
  /\ StageIsOn /\ app.metadataPending
  /\ app' = FileLoadedMetadata(app)
  /\ OthersParked

StageTimeConfirm ==
  /\ StageIsOn /\ app.currentStage = "selecting_time" /\ app.videoFile # "none"
  /\ app' = HandleTimeSelectConfirm(app)
  /\ OthersParked

StageCropConfirm ==
  /\ StageIsOn /\ app.currentStage = "cropping_area" /\ app.videoFile # "none"
  /\ app' = HandleCropConfirm(app)
  /\ OthersParked

(* 'Axustar Tempo', 'Axustar Recorte', the close button of DebugViewer *)
StageSetStage ==
  /\ StageIsOn
  /\ \/ /\ app.currentStage = "preview"
        /\ \E st \in {"selecting_time", "cropping_area"} :
             app' = [app EXCEPT !.currentStage = st]
     \/ /\ app.currentStage = "debugging" /\ app.debugFrames
        /\ app' = [app EXCEPT !.currentStage = "preview"]
  /\ OthersParked

StageTranscribe ==
  /\ StageIsOn /\ CanTranscribe(app) /\ app.started < MaxOps
  /\ app' = HandleTranscribe(app)
  /\ OthersParked

StageDebug ==
  /\ StageIsOn /\ CanTranscribe(app) /\ app.started < MaxOps
  /\ app' = HandleDebug(app)
  /\ OthersParked

StageProgress ==
  /\ StageIsOn
  /\ \E o \in OpIds : app.ops[o].pc = "extracting"
  /\ app' = ProgressCallback(app)
  /\ OthersParked

StageFramesSettled ==
  /\ StageIsOn
  /\ \E o \in OpIds, ok \in BOOLEAN :
       /\ app.ops[o].pc = "extracting"
       /\ app' = AfterFrames(app, o, ok)
  /\ OthersParked

StageTranscriptionSettled ==
  /\ StageIsOn
  /\ \E o \in OpIds, ok \in BOOLEAN :
       /\ app.ops[o].pc = "transcribing"
       /\ app' = AfterTranscription(app, o, ok)
  /\ OthersParked

(* 'Comezar de novo', shown when the stage is not 'uploading' *)
StageReset ==
  /\ StageIsOn /\ app.currentStage # "uploading"
  /\ app' = ResetState(app)
  /\ OthersParked

StageNext ==
  \/ StageUpload
  \/ StageLoadedMetadata
  \/ StageTimeConfirm
  \/ StageCropConfirm
  \/ StageSetStage
  \/ StageTranscribe
  \/ StageDebug
  \/ StageProgress
  \/ StageFramesSettled
  \/ StageTranscriptionSettled
  \/ StageReset

StageInit ==
  /\ RecorderParked
  /\ sampler = [i \in SamplerIds |-> SamplerOff]
  /\ bounds = BoundsOff
  /\ selector = SelectorOff
  /\ cropper = CropperOff
  /\ app = StageMount

(* the two Apps of the repository, one at a time *)
AppsInit == AppInit \/ StageInit
AppsNext == AppNext \/ StageNext
AppsSpec == AppsInit /\ [][AppsNext]_vars

(* C25: at most one record or sample operation is in flight against a      *)
(* given source: the App never starts recordCroppedVideo or                *)
(* extractFramesFromVideo on a source (the <video> element of the          *)
(* single-screen App, the uploaded file of the staged App) while an        *)
(* earlier operation on that source has not settled, under any sequence of *)
(* analyze, transcribe, debug, reset and re-upload.                        *)
C25_OneOperationPerSource ==
  /\ AppIsOn => ~app.overlap
  /\ StageIsOn => ~app.overlap

(***************************************************************************)
(* The frame loop of recordCroppedVideo, tick by tick.                     *)
(***************************************************************************)
(* what a tick did, read from the state it leaves *)
TickAction(s) ==
  IF s.h.drawn
    THEN IF s.c.frameCb # "none" THEN "draw and continue"
         ELSE "draw, pause source, stop encoder"
  ELSE IF s.h.stopBranch THEN "stop encoder without drawing"
  ELSE "nothing"

(* a tick of the frame loop is due *)
TickDue == call.frameCb # "none"

(* C26: the polling fallback loop is functionally identical to the         *)
(* frame-ready-notification loop: in every state in which a tick is due    *)
(* (paused flag, ended flag, position against startTime and endTime,       *)
(* finished flag), fallbackLoop and onFrame take the same action among do  *)
(* nothing, stop the encoder without drawing, draw and continue, draw then *)
(* pause the source and stop the encoder.                                  *)
C26_LoopsIdentical ==
  TickDue => TickAction(OnFrame(World)) = TickAction(FallbackLoop(World))

(* C27: during an extractFramesFromVideo invocation onProgress is invoked  *)
(* exactly once after each frame is appended, with the fraction k/N of the *)
(* planned frames completed at that point (recorded as k), and at no other *)
(* time: the callbacks issued are one per frame appended, so a successful  *)
(* N-frame invocation has issued exactly N of them.                        *)
C27_OneProgressPerFrame ==
  \A i \in SamplerIds :
    LET r == sampler[i] IN
    SamplerInvoked(r) =>
      /\ Len(r.progress) = Len(r.frames)
      /\ \A k \in 1..Len(r.progress) : r.progress[k] = k

(***************************************************************************)
(* The phases of a recordCroppedVideo invocation, read from its state.     *)
(***************************************************************************)
Phase(c) ==
  IF Settled(c) THEN "TERMINAL"
  ELSE IF c.isFinished \/ c.stopTask # "none" THEN "STOPPING"
  ELSE IF c.recorder = "recording" THEN "RECORDING"
  ELSE IF c.pc \in {"seekWait", "afterSeek"} THEN "SEEKING"
  ELSE "INIT"

PhaseRank(c) ==
  CASE Phase(c) = "INIT" -> 0
    [] Phase(c) = "SEEKING" -> 1
    [] Phase(c) = "RECORDING" -> 2
    [] Phase(c) = "STOPPING" -> 3
    [] Phase(c) = "TERMINAL" -> 4

(* the step calls recorder.start(), sourceVideo.play(), draw() *)
EncoderStarted == call.recorder # "recording" /\ call'.recorder = "recording"
PlaybackBegun == call.pc # "playWait" /\ call'.pc = "playWait"
FrameRendered == ~hist.drawn /\ hist'.drawn

(* C28: recordCroppedVideo follows the order INIT -> SEEKING -> RECORDING  *)
(* -> STOPPING -> terminal: the encoder is started only in SEEKING, after  *)
(* the seek to startTime was confirmed or timed out; playback is begun     *)
(* only with the encoder started; a frame is rendered only once play() has *)
(* been fulfilled; and the phase never goes back.                          *)
C28_PhaseSteps ==
  /\ EncoderStarted => call.isResolved /\ Phase(call) = "SEEKING"
  /\ PlaybackBegun => call'.recorder = "recording"
  /\ FrameRendered => call.pc \in {"playWait", "looping"} /\ call'.pc = "looping"
  /\ PhaseRank(call') >= PhaseRank(call)

C28_PhaseOrder == [][C28_PhaseSteps]_vars

(* the source is stalled mid-stream, or has ended *)
Stalled == sourceVideo.paused
             /\ sourceVideo.currentTime > call.startTime + SeekEpsilonMs
MustStop == Stalled \/ sourceVideo.ended

(* what the tick of onFrame does, by the state of the source *)
TickBySourceState ==
  /\ MustStop =>
       /\ call'.recorder # "recording" /\ ~hist'.drawn
       /\ call'.frameCb = "none"
  /\ ~MustStop =>
       /\ hist'.drawn
       /\ call'.frameCb = "rvfc" <=> sourceVideo.currentTime < call.endTime
       /\ sourceVideo.currentTime < call.endTime =>
            /\ call'.recorder = call.recorder
            /\ sourceVideo' = sourceVideo
       /\ sourceVideo.currentTime >= call.endTime =>
            /\ sourceVideo'.paused /\ call'.recorder # "recording"
  /\ call'.recorder # call.recorder => call'.frameCb = "none"

(* C29 as written: on every tick of onFrame the action is a function of    *)
(* the source state: paused past startTime + 0.1, or ended: the encoder is *)
(* stopped and no frame is rendered; otherwise the frame is rendered and   *)
(* the next tick is scheduled iff position < endTime, else the source is   *)
(* paused and the encoder stopped; a tick that stops the encoder schedules *)
(* no further tick.                                                        *)
C29_TickBySourceState == [][FrameCallback => TickBySourceState]_vars

(* C29 amended: the same on every tick of an invocation that has not       *)
(* finished; a tick of a finished invocation (watchdog, encoder error or   *)
(* play() failure came first) does nothing, whatever the source state.     *)
C29_TickUnlessFinished ==
  [][FrameCallback =>
       /\ ~call.isFinished => TickBySourceState
       /\ call.isFinished =>
            /\ sourceVideo' = sourceVideo
            /\ call' = [call EXCEPT !.frameCb = "none"]
            /\ ~hist'.drawn /\ ~hist'.stopBranch]_vars

(* C29 witness: a tick of onFrame found the source paused past            *)
(* startTime + 0.1 s before endTime, stopped the encoder, rendered no      *)
(* frame and scheduled no tick; the invocation has not finished yet.       *)
C29_Witness ==
  /\ hist.tick = "rvfc" /\ ~call.isFinished
  /\ sourceVideo.paused /\ ~sourceVideo.ended
  /\ sourceVideo.currentTime > call.startTime + SeekEpsilonMs
  /\ sourceVideo.currentTime < call.endTime
  /\ hist.stopBranch /\ ~hist.drawn
  /\ call.frameCb = "none" /\ call.recorder = "inactive"
  /\ call.stopTask = "data"

(* C31: the stages of the staged App advance Upload -> TimeSelect -> Crop  *)
(* -> Preview -> Results in that order: in every reachable state in which  *)
(* the stage is 'preview' a video is loaded and both a time range and a    *)
(* crop area have been confirmed for that video.                           *)
C31_PreviewHasVideoRangeCrop ==
  (StageIsOn /\ app.currentStage = "preview") =>
     /\ app.videoFile # "none"
     /\ app.timeRange /\ app.timeConfirmed
     /\ app.cropArea /\ app.cropConfirmed

(***************************************************************************)
(* Invocations of recordCroppedVideo one after the other on the same       *)
(* source.  The next invocation starts when the earlier one has settled    *)
(* and has nothing left to run but the delayed restores of its cleanup:    *)
(* these timers (each with the originalMuted of its own invocation) are    *)
(* carried in call.prior.                                                  *)
(***************************************************************************)
MaxRepeats == 1            \* invocations after the first one

RECURSIVE Copies(_, _)
Copies(n, x) == IF n = 0 THEN <<>> ELSE <<x>> \o Copies(n - 1, x)

NothingLeftButRestores ==
  /\ Settled(call)
  /\ call.pc \notin {"seekWait", "afterSeek", "playWait"}
  /\ call.recorder # "recording" /\ call.stopTask \in {"none", "done"}
  /\ call.frameCb = "none"
  /\ call.safetyTimeout # "armed" /\ call.seekTimer # "armed"

(* the history starts again with each invocation, but for the source as    *)
(* it was before the first one; the next invocation is given the crop and  *)
(* the range of the earlier one                                            *)
RecordNext ==
  /\ NothingLeftButRestores
  /\ call.calls < MaxRepeats
  /\ \E ctxOK \in BOOLEAN, rec1OK \in BOOLEAN, rec2OK \in BOOLEAN :
      \E readback \in {call.startTime, sourceVideo.currentTime} :
       LET fresh == [InitCall EXCEPT
                       !.prior = call.prior
                                   \o Copies(call.restoreTimers, call.originalMuted),
                       !.calls = call.calls + 1]
           h0 == [cleanups |-> 0, restores |-> 0, srcWrites |-> FALSE,
                  lateWrites |-> FALSE, wdFired |-> "no",
                  playbackError |-> FALSE, drawn |-> FALSE,
                  stopBranch |-> FALSE, tick |-> "none", v0 |-> hist.v0]
           s == RecordCroppedVideo([World EXCEPT !.c = fresh, !.h = h0],
                                   call.crop, call.startTime, call.endTime,
                                   ctxOK, rec1OK, rec2OK, readback)
       IN Becomes([s EXCEPT !.h.v0 = hist.v0])

(* the delayed restore of an earlier invocation's cleanup *)
PriorRestoreFire ==
  /\ NoMicrotask
  /\ call.prior # <<>>
  /\ Becomes(SetMuted([World EXCEPT !.c.prior = Tail(@)], Head(call.prior)))

SeqNext == Next \/ RecordNext \/ PriorRestoreFire

(* the source is loaded, paused at the start, muted or not *)
SeqInit == Init /\ sourceVideo.paused /\ sourceVideo.currentTime = 0

SeqSpec == SeqInit /\ [][SeqNext]_vars

(* C32: for invocations of recordCroppedVideo on the same source, each     *)
(* started only after the previous one has settled (however soon after,    *)
(* also within the 100 ms of the delayed restore), once every invocation   *)
(* and every delayed restore has completed the mute flag of the source is  *)
(* the one it had before the first invocation.                             *)
C32_MuteFlagRestored ==
  (Invoked /\ NothingLeftButRestores
     /\ call.restoreTimers = 0 /\ call.prior = <<>>)
    => sourceVideo.muted = hist.v0.muted

(* C33: whenever recordCroppedVideo reaches a terminal outcome after it    *)
(* began source playback (play() was called), the source is not playing at *)
(* that point: it is paused or ended, on every exit path.                  *)
C33_NotPlayingAtOutcome ==
  [][(~Settled(call) /\ Settled(call') /\ call.pc \in {"playWait", "looping"})
       => (sourceVideo'.paused \/ sourceVideo'.ended)]_vars

(***************************************************************************)
(* The container/codec of the clip: the MIME type recordCroppedVideo       *)
(* selects, the MediaRecorder it constructs (with the selected type and    *)
(* the bitrate, or without options), the Blob of recorder.onstop and the   *)
(* inlineData analyzeLipReading sends.  The state is held in bounds.       *)
(***************************************************************************)
Mp4 == "video/mp4"
Vp9 == "video/webm; codecs=vp9"
Vp8 == "video/webm; codecs=vp8"
Webm == "video/webm"
Matroska == "video/x-matroska"

(* what MediaRecorder.isTypeSupported accepts among the types asked about, *)
(* and the type a MediaRecorder constructed without options records        *)
EncoderInputs ==
  { [pc |-> "encoderInput", supported |-> S, defaultType |-> d] :
      S \in SUBSET {Mp4, Vp9, Vp8}, d \in {Mp4, Vp9, Vp8, Matroska} }

SelectMimeType(supported) ==
  IF Mp4 \in supported THEN Mp4
  ELSE IF Vp9 \in supported THEN Vp9
  ELSE IF Vp8 \in supported THEN Vp8
  ELSE Webm

(* new MediaRecorder(stream, {mimeType, videoBitsPerSecond}), and on a     *)
(* throw new MediaRecorder(stream)                                         *)
NewMediaRecorder(b, firstOK, retryOK) ==
  LET mimeType == SelectMimeType(b.supported) IN
  IF firstOK
    THEN [pc |-> "encoder", supported |-> b.supported,
          defaultType |-> b.defaultType, mimeType |-> mimeType,
          recorderType |-> mimeType]
  ELSE IF retryOK
    THEN [pc |-> "encoder", supported |-> b.supported,
          defaultType |-> b.defaultType, mimeType |-> mimeType,
          recorderType |-> b.defaultType]
  ELSE [pc |-> "encoderRejected", supported |-> b.supported,
        defaultType |-> b.defaultType, mimeType |-> mimeType]

(* recorder.onstop: new Blob(chunks, { type: mimeType }) *)
OnStopBlob(b, size) ==
  IF size = 0
    THEN [pc |-> "emptyRejected", supported |-> b.supported,
          defaultType |-> b.defaultType, mimeType |-> b.mimeType,
          recorderType |-> b.recorderType]
  ELSE [pc |-> "clip", supported |-> b.supported,
        defaultType |-> b.defaultType, mimeType |-> b.mimeType,
        recorderType |-> b.recorderType,
        blob |-> [type |-> b.mimeType, size |-> size]]

(* analyzeLipReading: inlineData.mimeType = videoBlob.type || 'video/webm' *)
InlineData(b) ==
  [pc |-> "sent", supported |-> b.supported,
   defaultType |-> b.defaultType, mimeType |-> b.mimeType,
   recorderType |-> b.recorderType, blob |-> b.blob,
   inlineMimeType |-> IF b.blob.type = "" THEN Webm ELSE b.blob.type]

EncoderCreate ==
  /\ bounds.pc = "encoderInput"
  /\ \E firstOK \in BOOLEAN, retryOK \in BOOLEAN :
       bounds' = NewMediaRecorder(bounds, firstOK, retryOK)
  /\ UNCHANGED <<recorderVars, sampler, uiVars>>

EncoderStopped ==
  /\ bounds.pc = "encoder"
  /\ \E size \in 0..2 : bounds' = OnStopBlob(bounds, size)
  /\ UNCHANGED <<recorderVars, sampler, uiVars>>

ClipAnalyzed ==
  /\ bounds.pc = "clip"
  /\ bounds' = InlineData(bounds)
  /\ UNCHANGED <<recorderVars, sampler, uiVars>>

MimeInit ==
  /\ RecorderParked
  /\ sampler = [i \in SamplerIds |-> SamplerOff]
  /\ bounds \in EncoderInputs
  /\ UiOff

MimeNext == EncoderCreate \/ EncoderStopped \/ ClipAnalyzed

MimeSpec == MimeInit /\ [][MimeNext]_vars

(* C34: the MIME type attached to the clip recordCroppedVideo resolves     *)
(* with (and sent on with it by analyzeLipReading) is the container/codec  *)
(* the encoder was actually initialised with, also when the first          *)
(* initialisation fails and the option-less retry is used.                 *)
C34_ClipTypeIsEncoderType ==
  /\ bounds.pc \in {"clip", "sent"} => bounds.blob.type = bounds.recorderType
  /\ bounds.pc = "sent" => bounds.inlineMimeType = bounds.recorderType

C36_NoStartAfterCleanup ==
  [][call.isFinished => ~EncoderStarted /\ ~PlaybackBegun]_vars

(* C37: after the reset of the App (start over) was invoked while a frame  *)
(* extraction, a recording or an analysis was in flight, the later         *)
(* completion or failure of that operation changes neither the status, nor *)
(* the stage, nor the transcription / result text, nor the debug frames.   *)
(* In the single-screen App the operations started before the reset are    *)
(* those of a <video> element that is no longer the current one.           *)
C37_StaleCompletionIgnored ==
  [][/\ AppIsOn =>
          \A e \in Elements :
            (e # app.el /\ app.runs[e] \in {"recording", "analyzing"}
               /\ app'.runs[e] # app.runs[e]) =>
              /\ app'.status = app.status
              /\ app'.resultText = app.resultText
     /\ StageIsOn =>
          \A o \in OpIds :
            (app.ops[o].stale /\ app'.ops[o].pc # app.ops[o].pc) =>
              /\ app'.status = app.status
              /\ app'.currentStage = app.currentStage
              /\ app'.transcription = app.transcription
              /\ app'.debugFrames = app.debugFrames]_vars

(* C38: while a recordCroppedVideo invocation started by the single-screen *)
(* App is in flight, no user control of the App (the play/pause toggle,    *)
(* the start-time slider) changes the play state or the position of the    *)
(* source.                                                                 *)
C38_ControlsInertWhileRecording ==
  [][(AppIsOn /\ RunInFlight(app) /\ (AppTogglePlay \/ AppStartSlider)) =>
       /\ app'.video.paused = app.video.paused
       /\ app'.video.currentTime = app.video.currentTime]_vars

(* C39: after any sequence of move and corner-resize drag events in        *)
(* Cropper, with a rendered video of at least 20 px in each dimension, the *)
(* crop box on screen has width >= 20 and height >= 20 and lies entirely   *)
(* inside the rendered video rectangle (lengths in half pixels).           *)
C39_BoxInsideAfterDrags ==
  LET g == cropper.videoGeom
      b == cropper.cropBox
  IN (cropper.pc # "off" /\ cropper.drags > 0
        /\ g.renderWidth >= MinBox /\ g.renderHeight >= MinBox) =>
       /\ b.width >= MinBox /\ b.height >= MinBox
       /\ b.x >= g.xOffset /\ b.y >= g.yOffset
       /\ b.x + b.width <= g.xOffset + g.renderWidth
       /\ b.y + b.height <= g.yOffset + g.renderHeight

====
